---- MODULE Spec2Model ----
(***************************************************************************)
(* AffectLearn front end: the quiz-generation route, the chat store's turn *)
(* pipeline, and the voice / image explanation sidebars, as state machines.*)
(*                                                                         *)
(* The specifications of the module, one per subsystem:                    *)
(*   SpecQuiz      POST /api/generate-quiz and generateQuizWithGroq        *)
(*   SpecQuizPage  the quiz page's setup step calling that route           *)
(*   SpecScore     the quiz page's answers and handleSubmitQuiz            *)
(*   SpecQuizSteps the quiz page's steps with requests in flight           *)
(*   SpecChat      chatStore.addMessage (sendToBackend) and ChatInput      *)
(*   SpecAudio     ChatInput.handleStopRecording                           *)
(*   SpecSwitch    the turn pipeline while the chat is switched            *)
(*   SpecSessions  the chat store's session operations                     *)
(*   SpecVoice     VoiceSidebar                                            *)
(*   SpecImage     ImageSidebar                                            *)
(*   SpecSidebars  both sidebars on one chat page                          *)
(*   SpecToggle    ExplanationToggle and the two sidebar flags             *)
(***************************************************************************)
EXTENDS Integers, Sequences, FiniteSets, TLC

VARIABLES
    \* ---- POST /api/generate-quiz ----
    quizPc,        \* "idle" | "generating" | "responded"
    quizRequest,   \* body of the request being served
    quizResponse,  \* what POST answered
    groqCalls,     \* upstream calls made for the request being served
    \* ---- QuizPage ----
    pageFile,             \* "page" (app/quiz/page.tsx) | "page_new" (app/quiz/page_new.tsx)
    currentStep,          \* "setup" | "quiz" | "results"
    quizData,
    userAnswers,
    currentQuestionIndex,
    quizResults,
    quizCount,
    submits,              \* handleSubmitQuiz calls suspended at the insert into quizzes
    fetches,              \* generateQuiz calls of the page: "pending" | "resolved" | "rejected"
    generated,            \* history: the generateQuiz call whose quiz is quizData (0: none)
    \* ---- chat store (zustand) ----
    currentSession,  \* ChatSession record or NoSession
    sessions,        \* sequence of ChatSession records
    sessionFresh,    \* currentSession is a new object since the sidebar's last render
    isCreatingSession,
    creating,        \* createSessionInDB task: the local id of the session it creates
    uuidCount,       \* uuidv4() values issued so far
    now,             \* wall clock, in seconds
    \* ---- chatStore.addMessage / ChatInput ----
    turns,           \* one sendToBackend task per submitted user message
    inputLoading,    \* ChatInput isLoading
    inputTimers,     \* pending setTimeout(() => setIsLoading(false), 3000) callbacks
    recordings,      \* handleStopRecording calls: "sending" | "done"
    \* ---- VoiceSidebar / ImageSidebar component instance ----
    isVoiceSidebarOpen,
    isImageSidebarOpen,
    inst,            \* number of the mounted instance (0: never mounted)
    mounted,         \* the sidebar ChatPage renders: "none" | "voice" | "image"
    isLoading,
    explanation,     \* voiceExplanation / imageExplanation
    error,
    cachedExplanations,
    rendered,        \* what the last committed render saw (closures, deps, visible buttons)
    requests,        \* async generate calls suspended at an await
    lastEvent,       \* history: what the last step of a generate call did
    failedKeys,      \* history: cache keys a generation of this instance failed for
    autoRequests,    \* history: calls the open effects have suspended since the user last acted
    \* ---- chatStore's session operations ----
    calls            \* log of the store's calls to the backend, each with its status

quizVars == <<quizPc, quizRequest, quizResponse, groqCalls>>
fetchVars == <<fetches, generated>>
pageVars == <<pageFile, currentStep, quizData, userAnswers, currentQuestionIndex,
              quizResults, quizCount, submits, fetchVars>>
storeVars == <<currentSession, sessions, sessionFresh, isCreatingSession, creating, uuidCount, now>>
chatVars == <<turns, inputLoading, inputTimers, recordings>>
hookVars == <<isLoading, explanation, error, cachedExplanations>>
sidebarVars == <<isVoiceSidebarOpen, isImageSidebarOpen, inst, mounted, hookVars,
                 rendered, requests, lastEvent, failedKeys, autoRequests>>
callVars == <<calls>>
vars == <<quizVars, pageVars, storeVars, chatVars, sidebarVars, callVars>>

(***************************************************************************)
(* Bounds of the model.                                                    *)
(***************************************************************************)
MaxQuestions == 2      \* longest array the upstream model returns
MaxRawIndex == 5       \* largest raw answer index the upstream model returns (the smallest is -1)
MaxTurns == 2          \* user messages submitted through ChatInput
MaxSessions == 2       \* sessions created by createNewSession
MaxRequests == 2       \* generate calls in flight before the user acts again
MaxMounts == 2         \* times a sidebar is opened
MaxScored == 3         \* questions of a quiz the page scores
MaxSubmits == 1        \* handleSubmitQuiz calls awaiting their insert
MaxResubmits == 2      \* the same, where the Submit button is clicked again meanwhile
MaxFetches == 2        \* generateQuiz calls of the quiz page in one visit
MaxAutoRequests == 3   \* automatic generate calls counted between two user actions
MaxCalls == 3          \* calls of the store to the backend in one visit
MaxRecordings == 2     \* audio messages recorded through ChatInput

(***************************************************************************)
(* POST /api/generate-quiz  (src/unnamed/part_004)                         *)
(***************************************************************************)
QuizMinCount == 1
QuizMaxCount == 15
OptionsPerQuestion == 4
MaxAnswerIndex == 3

Difficulties == {"easy", "medium", "hard"}

\* A JSON value where the code expects a string: a string, or a truthy value
\* of another type (a number, an object), which has no trim method.
Str(s) == [isString |-> TRUE, s |-> s]
NotAString == [isString |-> FALSE, s |-> ""]

\* String.prototype.trim on the topics the model submits.
Trim(s) == IF s = "  " THEN "" ELSE s

Topics == {Str(""), Str("  "), Str("Photosynthesis"), NotAString}
DifficultyInputs == {"easy", "hard", "expert"}
QuestionCountInputs == (0..MaxQuestions) \cup {QuizMaxCount, QuizMaxCount + 1}

\* A JSON value where the code expects an array: an array or something else.
NotArray == [isArray |-> FALSE, items |-> <<>>]
Arr(s) == [isArray |-> TRUE, items |-> s]

\* A JSON value where the code expects a number.
Num(n) == [isNumber |-> TRUE, n |-> n]
NotNumber == [isNumber |-> FALSE, n |-> 0]
RawAnswers == {Num(n) : n \in (0 - 1)..MaxRawIndex} \cup {NotNumber}

SeqsUpTo(S, n) == UNION {[1..k -> S] : k \in 1..n}

OptionLists == {Arr([j \in 1..k |-> "option"]) : k \in {OptionsPerQuestion - 1, OptionsPerQuestion}} \cup {NotArray}

UpstreamQuizzes ==
    [questions : {Arr([j \in 1..k |-> "question"]) : k \in 1..MaxQuestions} \cup {NotArray},
     options : {Arr(s) : s \in SeqsUpTo(OptionLists, MaxQuestions)} \cup {NotArray},
     correct_answers : {Arr(s) : s \in SeqsUpTo(RawAnswers, MaxQuestions)} \cup {NotArray},
     explanations : {Arr([j \in 1..k |-> "explanation"]) : k \in 1..MaxQuestions} \cup {NotArray}]

NoQuiz == [questions |-> NotArray, options |-> NotArray,
           correct_answers |-> NotArray, explanations |-> NotArray]
NoRequest == [topic |-> Str(""), difficulty |-> "", questionCount |-> 0, fromPage |-> FALSE]
\* raw (history): the correct_answers the upstream model sent for a quiz that
\* was returned.  sent (history): the options the upstream model sent.
NoResponse == [status |-> 0, quiz |-> NoQuiz, raw |-> <<>>, sent |-> NotArray]

\* !quiz.f || !Array.isArray(quiz.f) || quiz.f.length !== questionCount
WrongArray(f, questionCount) == ~f.isArray \/ Len(f.items) # questionCount

\* Variant: the 1-based conversion with its lower limit off by one.
CorrectedAnswerAboveOne(correctAnswer) ==
    IF correctAnswer.isNumber
    THEN IF correctAnswer.n > 1 /\ correctAnswer.n <= 4 THEN Num(correctAnswer.n - 1)
         ELSE IF correctAnswer.n > MaxAnswerIndex THEN Num(MaxAnswerIndex)
         ELSE IF correctAnswer.n < 0 THEN Num(0)
         ELSE correctAnswer
    ELSE correctAnswer

\* Variant: the correction that leaves the indices 0..3 as they are.
CorrectedAnswerKeepingValid(correctAnswer) ==
    IF correctAnswer.isNumber
    THEN IF correctAnswer.n > MaxAnswerIndex THEN Num(MaxAnswerIndex)
         ELSE IF correctAnswer.n < 0 THEN Num(0)
         ELSE correctAnswer
    ELSE correctAnswer

\* The index correction of one raw answer.
CorrectedAnswer(correctAnswer) ==
    IF correctAnswer.isNumber
    THEN IF correctAnswer.n >= 1 /\ correctAnswer.n <= 4 THEN Num(correctAnswer.n - 1)
         ELSE IF correctAnswer.n > MaxAnswerIndex THEN Num(MaxAnswerIndex)
         ELSE IF correctAnswer.n < 0 THEN Num(0)
         ELSE correctAnswer
    ELSE correctAnswer

\* The final validation of one corrected answer.
InvalidAnswer(correctAnswer) ==
    ~correctAnswer.isNumber \/ correctAnswer.n < 0 \/ correctAnswer.n > MaxAnswerIndex

\* Variant: the options check without the length comparison.
WrongOptionsAnyLength(o) == ~o.isArray

\* !Array.isArray(quiz.options[i]) || quiz.options[i].length !== 4
WrongOptions(o) == ~o.isArray \/ Len(o.items) # OptionsPerQuestion

\* Variant: the structure validation only, without the loop that corrects and
\* validates the answer indices.
ValidatedQuizUncorrected(quiz, questionCount) ==
    IF \/ WrongArray(quiz.questions, questionCount)
       \/ WrongArray(quiz.options, questionCount)
       \/ WrongArray(quiz.correct_answers, questionCount)
       \/ WrongArray(quiz.explanations, questionCount)
    THEN NoQuiz
    ELSE quiz

\* generateQuizWithGroq from the parsed JSON on: the quiz it returns, or
\* NoQuiz when it throws.
ValidatedQuiz(quiz, questionCount) ==
    IF \/ WrongArray(quiz.questions, questionCount)
       \/ WrongArray(quiz.options, questionCount)
       \/ WrongArray(quiz.correct_answers, questionCount)
       \/ WrongArray(quiz.explanations, questionCount)
    THEN NoQuiz
    ELSE IF \E i \in 1..questionCount :
               \/ WrongOptions(quiz.options.items[i])
               \/ InvalidAnswer(CorrectedAnswer(quiz.correct_answers.items[i]))
         THEN NoQuiz
         ELSE [quiz EXCEPT !.correct_answers =
                  Arr([i \in 1..questionCount |-> CorrectedAnswer(quiz.correct_answers.items[i])])]

\* The input validation of POST.
InvalidQuizInput(topic, difficulty, questionCount) ==
    \/ Trim(topic.s) = ""
    \/ difficulty \notin Difficulties
    \/ questionCount < QuizMinCount
    \/ questionCount > QuizMaxCount

\* Variant: generateQuiz without callGroqAPI's check of response.ok.
PageAfterGenerateUnchecked(fromPage, status, quiz) ==
    IF fromPage
    THEN /\ quizData' = quiz
         /\ userAnswers' = [i \in 1..Len(quiz.questions.items) |-> ""]
         /\ currentQuestionIndex' = 0
         /\ currentStep' = "quiz"
         /\ UNCHANGED <<pageFile, fetchVars, quizResults, quizCount, submits>>
    ELSE UNCHANGED pageVars

\* generateQuiz of the quiz page after callGroqAPI: a response that is ok
\* becomes quizData and opens the quiz step; any other response throws
\* inside callGroqAPI, and the catch only alerts.
PageAfterGenerate(fromPage, status, quiz) ==
    IF fromPage /\ status = 200
    THEN /\ quizData' = quiz
         /\ userAnswers' = [i \in 1..Len(quiz.questions.items) |-> ""]
         /\ currentQuestionIndex' = 0
         /\ currentStep' = "quiz"
         /\ UNCHANGED <<pageFile, fetchVars, quizResults, quizCount, submits>>
    ELSE UNCHANGED pageVars

\* The Generate Quiz button of the setup step: enabled for a topic that is
\* not blank; the difficulty comes from one of three buttons.
PageMayGenerate(topic, difficulty) ==
    /\ pageFile = "page"
    /\ currentStep = "setup"
    /\ topic.isString
    /\ Trim(topic.s) # ""
    /\ difficulty \in Difficulties

\* POST, up to the call of generateQuizWithGroq. fromPage: the request is the
\* fetch of the quiz page's callGroqAPI (else another HTTP client's).
QuizPost(topic, difficulty, questionCount, fromPage) ==
    /\ quizPc = "idle"
    /\ fromPage => PageMayGenerate(topic, difficulty)
    /\ quizRequest' = [topic |-> topic, difficulty |-> difficulty,
                       questionCount |-> questionCount, fromPage |-> fromPage]
    /\ IF ~topic.isString
       THEN \* topic.trim is not a function: the TypeError lands in POST's catch
            /\ quizPc' = "responded"
            /\ quizResponse' = [status |-> 500, quiz |-> NoQuiz, raw |-> <<>>, sent |-> NotArray]
            /\ UNCHANGED groqCalls
            /\ PageAfterGenerate(fromPage, 500, NoQuiz)
       ELSE IF InvalidQuizInput(topic, difficulty, questionCount)
       THEN /\ quizPc' = "responded"
            /\ quizResponse' = [status |-> 400, quiz |-> NoQuiz, raw |-> <<>>, sent |-> NotArray]
            /\ UNCHANGED groqCalls
            /\ PageAfterGenerate(fromPage, 400, NoQuiz)
       ELSE /\ quizPc' = "generating"
            /\ groqCalls' = 1
            /\ UNCHANGED <<quizResponse, pageVars>>
    /\ UNCHANGED <<storeVars, chatVars, sidebarVars, callVars>>

\* GROQ_API_KEY unset, fetch not ok, no content, or no JSON object in the content.
QuizGroqFails ==
    /\ quizPc = "generating"
    /\ quizPc' = "responded"
    /\ quizResponse' = [status |-> 500, quiz |-> NoQuiz, raw |-> <<>>, sent |-> NotArray]
    /\ PageAfterGenerate(quizRequest.fromPage, 500, NoQuiz)
    /\ UNCHANGED <<quizRequest, groqCalls, storeVars, chatVars, sidebarVars, callVars>>

QuizGroqReturns(quiz) ==
    /\ quizPc = "generating"
    /\ quizPc' = "responded"
    /\ LET q == ValidatedQuiz(quiz, quizRequest.questionCount)
           status == IF q = NoQuiz THEN 500 ELSE 200
       IN /\ quizResponse' = [status |-> status,
                              quiz |-> q,
                              raw |-> IF q = NoQuiz THEN <<>> ELSE quiz.correct_answers.items,
                              sent |-> quiz.options]
          /\ PageAfterGenerate(quizRequest.fromPage, status, q)
    /\ UNCHANGED <<quizRequest, groqCalls, storeVars, chatVars, sidebarVars, callVars>>

QuizNextRequest ==
    /\ quizPc = "responded"
    /\ quizPc' = "idle"
    /\ quizRequest' = NoRequest
    /\ quizResponse' = NoResponse
    /\ groqCalls' = 0
    /\ UNCHANGED <<pageVars, callVars, storeVars, chatVars, sidebarVars>>

(***************************************************************************)
(* QuizPage  (src/frontend/app/quiz/page.tsx, page_new.tsx): answering and *)
(* scoring a quiz.                                                         *)
(***************************************************************************)
\* Number.prototype.toString on an option index, and parseInt on an entry of
\* userAnswers ('' parses to NaN).
AnswerStrings == <<"0", "1", "2", "3">>
IndexToString(answerIndex) == AnswerStrings[answerIndex + 1]
ParseInt(answer) ==
    IF \E k \in 1..Len(AnswerStrings) : AnswerStrings[k] = answer
    THEN Num((CHOOSE k \in 1..Len(AnswerStrings) : AnswerStrings[k] = answer) - 1)
    ELSE NotNumber

\* parseInt(answer) === correctAnswers[index]
StrictEquals(a, b) == a.isNumber /\ b.isNumber /\ a.n = b.n

\* userAnswers.forEach((answer, index) => { if (...) correctCount++ }), from index on.
RECURSIVE CountCorrect(_, _, _)
CountCorrect(answers, correctAnswers, index) ==
    IF index > Len(answers) THEN 0
    ELSE (IF index <= Len(correctAnswers) /\ StrictEquals(ParseInt(answers[index]), correctAnswers[index])
          THEN 1 ELSE 0) + CountCorrect(answers, correctAnswers, index + 1)

\* Scores are rational numbers num / den.
Rational(num, den) == [num |-> num, den |-> den]
\* Math.round of a non-negative rational.
MathRound(num, den) == (2 * num + den) \div (2 * den)

\* Variant: page_new.tsx's score without Math.round.
QuizScoreUnrounded(file, correctCount, total) == Rational(correctCount * 100, total)

\* quizScore: (correctCount / quizData.questions.length) * 100 in page.tsx,
\* Math.round of it in page_new.tsx.
QuizScore(file, correctCount, total) ==
    IF file = "page_new"
    THEN Rational(MathRound(correctCount * 100, total), 1)
    ELSE Rational(correctCount * 100, total)

NoResults == [score |-> Rational(0, 1), correctAnswers |-> 0, totalQuestions |-> 0,
              userAnswers |-> <<>>, correctAnswerIndices |-> <<>>]

QuizResults(file, data, answers) ==
    LET correctCount == CountCorrect(answers, data.correct_answers.items, 1)
        total == Len(data.questions.items)
    IN [score |-> QuizScore(file, correctCount, total),
        correctAnswers |-> correctCount,
        totalQuestions |-> total,
        userAnswers |-> answers,
        correctAnswerIndices |-> data.correct_answers.items]

HandleAnswerSelect(answerIndex) ==
    /\ currentStep = "quiz"
    /\ currentQuestionIndex < Len(userAnswers)
    /\ userAnswers' = [userAnswers EXCEPT ![currentQuestionIndex + 1] = IndexToString(answerIndex)]
    /\ UNCHANGED <<pageFile, fetchVars, currentStep, quizData, currentQuestionIndex, quizResults, quizCount,
                   submits, quizVars, storeVars, chatVars, sidebarVars, callVars>>

\* The Next button: in page_new.tsx it is disabled until the question is answered.
HandleNextQuestion ==
    /\ currentStep = "quiz"
    /\ currentQuestionIndex < Len(quizData.questions.items) - 1
    /\ pageFile = "page_new" => userAnswers[currentQuestionIndex + 1] # ""
    /\ currentQuestionIndex' = currentQuestionIndex + 1
    /\ UNCHANGED <<pageFile, fetchVars, currentStep, quizData, userAnswers, quizResults, quizCount,
                   submits, quizVars, storeVars, chatVars, sidebarVars, callVars>>

HandlePreviousQuestion ==
    /\ currentStep = "quiz"
    /\ currentQuestionIndex > 0
    /\ currentQuestionIndex' = currentQuestionIndex - 1
    /\ UNCHANGED <<pageFile, fetchVars, currentStep, quizData, userAnswers, quizResults, quizCount,
                   submits, quizVars, storeVars, chatVars, sidebarVars, callVars>>

\* handleSubmitQuiz up to the await of the insert into quizzes. The Submit
\* button stands on the last question and is disabled while an answer is '';
\* limit bounds the calls that wait for their insert.
SubmitQuiz(limit) ==
    /\ currentStep = "quiz"
    /\ quizData # NoQuiz
    /\ currentQuestionIndex = Len(quizData.questions.items) - 1
    /\ \A i \in 1..Len(userAnswers) : userAnswers[i] # ""
    /\ Len(submits) < limit
    /\ submits' = Append(submits, [results |-> QuizResults(pageFile, quizData, userAnswers),
                                   quizCount |-> quizCount,
                                   generated |-> generated])
    /\ UNCHANGED <<pageFile, fetchVars, currentStep, quizData, userAnswers, currentQuestionIndex,
                   quizResults, quizCount, quizVars, storeVars, chatVars, sidebarVars, callVars>>

HandleSubmitQuiz == SubmitQuiz(MaxSubmits)

\* The insert has returned. page.tsx shows the results whether or not the
\* row was saved; page_new.tsx throws on an insert error and only alerts.
SubmitInsertReturns(saved) ==
    /\ Len(submits) > 0
    /\ submits' = Tail(submits)
    /\ IF saved \/ pageFile = "page"
       THEN /\ quizResults' = submits[1].results
            /\ currentStep' = "results"
            /\ quizCount' = submits[1].quizCount + 1
       ELSE UNCHANGED <<quizResults, currentStep, quizCount>>
    /\ UNCHANGED <<pageFile, fetchVars, quizData, userAnswers, currentQuestionIndex,
                   quizVars, storeVars, chatVars, sidebarVars, callVars>>

HandleGenerateAnother ==
    /\ currentStep = "results"
    /\ quizData' = NoQuiz
    /\ userAnswers' = <<>>
    /\ currentQuestionIndex' = 0
    /\ quizResults' = NoResults
    /\ currentStep' = "setup"
    /\ UNCHANGED <<pageFile, fetchVars, quizCount, submits, quizVars, storeVars, chatVars, sidebarVars, callVars>>

(***************************************************************************)
(* Values shared by the chat store and the sidebars.                       *)
(***************************************************************************)
\* Identifiers: uuidv4() values, ids chosen by the backend, or undefined.
NoId == [kind |-> "undefined", n |-> 0]
Uuid(n) == [kind |-> "uuid", n |-> n]
QueryId(n) == [kind |-> "query", n |-> n]
BackendSessionId(n) == [kind |-> "session", n |-> n]

\* Texts. A text typed by the user or returned by the backend may carry
\* surrounding whitespace or runs of blank lines (padded); trim() and
\* cleanMarkdown() remove them.  s names the question the text is about.
Text(kind, s, padded) == [kind |-> kind, s |-> s, padded |-> padded]
NoText == Text("undefined", "", FALSE)
TrimText(t) == [t EXCEPT !.padded = FALSE]
\* String.prototype.toLowerCase on the questions the model types.
LowerCase(s) == IF s = "Friction" THEN "friction" ELSE s

\* cleanMarkdown (chatStore.ts): '' for a missing text, else the text with
\* runs of 3+ newlines collapsed and the ends trimmed.
CleanMarkdown(t) == IF t = NoText THEN NoText ELSE [t EXCEPT !.padded = FALSE]

NoValue == "undefined"

NoSession == [id |-> NoId, title |-> NoText, messages |-> <<>>]
NewChatTitle == Text("title", "New Chat", FALSE)

Message(id, type, content, timestamp, query_id, sentiment, main, simplified, detailed, turn) ==
    [id |-> id, type |-> type, content |-> content, timestamp |-> timestamp,
     query_id |-> query_id, sentiment |-> sentiment, main_response |-> main,
     simplified_response |-> simplified, detailed_response |-> detailed,
     turn |-> turn]   \* turn: history only, the turn an assistant message answers

(***************************************************************************)
(* chatStore  (src/frontend/store/chatStore.ts)                            *)
(***************************************************************************)
Abs(x) == IF x < 0 THEN 0 - x ELSE x

\* addMessage's duplicate check; timestamps are in seconds, the window is 1000 ms.
IsDuplicate(messages, message) ==
    \E i \in 1..Len(messages) :
        \/ messages[i].id = message.id
        \/ /\ messages[i].content = message.content
           /\ messages[i].type = message.type
           /\ Abs(messages[i].timestamp - message.timestamp) < 1

ReplaceSession(ss, id, session) ==
    [i \in 1..Len(ss) |-> IF ss[i].id = id THEN session ELSE ss[i]]

\* addMessage, its synchronous part: does the store take the message...
MessageAdded(cs, message) == cs # NoSession /\ ~IsDuplicate(cs.messages, message)

\* ... and the store after it.
AddedSession(cs, message) == [cs EXCEPT !.messages = Append(@, message)]

StoreAfterAddMessage(cs, ss, message) ==
    IF MessageAdded(cs, message)
    THEN [currentSession |-> AddedSession(cs, message),
          sessions |-> ReplaceSession(ss, cs.id, AddedSession(cs, message))]
    ELSE [currentSession |-> cs, sessions |-> ss]

\* Does addMessage start sendToBackend for the message?
SendsToBackend(message) ==
    message.type = "user" /\ message.content.s # "" /\ message.query_id = NoId

\* updateMessage
UpdatedSession(cs, messageId, updates) ==
    [cs EXCEPT !.messages =
        [i \in 1..Len(cs.messages) |->
            IF cs.messages[i].id = messageId THEN updates ELSE cs.messages[i]]]

StoreAfterUpdateMessage(cs, ss, messageId, updates) ==
    IF cs = NoSession
    THEN [currentSession |-> cs, sessions |-> ss]
    ELSE [currentSession |-> UpdatedSession(cs, messageId, updates),
          sessions |-> ReplaceSession(ss, cs.id, UpdatedSession(cs, messageId, updates))]

\* updateSessionTitle, after updateChatTitle succeeded
StoreAfterUpdateTitle(cs, ss, sessionId, title) ==
    [currentSession |-> IF cs # NoSession /\ cs.id = sessionId THEN [cs EXCEPT !.title = title] ELSE cs,
     sessions |-> [i \in 1..Len(ss) |->
                     IF ss[i].id = sessionId THEN [ss[i] EXCEPT !.title = title] ELSE ss[i]]]

NotCreating == NoId

SubmitDelay == 3   \* ChatInput: setTimeout(..., 3000), in seconds

(***************************************************************************)
(* What VoiceSidebar and ImageSidebar share: React's hooks.                *)
(*                                                                         *)
(* A render commits a snapshot of the hook state and of the store's        *)
(* currentSession; effects, click handlers and the async generate calls    *)
(* started from them read that snapshot (their closure), while the state   *)
(* setters write the live hook state.  React renders again, before it      *)
(* handles the next event, whenever the live state differs from what was   *)
(* last rendered.  ChatPage mounts a sidebar only while it is open, so     *)
(* closing one discards its hook state; the calls it started keep running  *)
(* and their state setters then do nothing.                                *)
(***************************************************************************)
NoError == "null"
NoExplanation == [kind |-> "null"]
NoEvent == [kind |-> "none"]
NoGenerateRequest == [stage |-> "none"]

InitialHooks == [isLoading |-> FALSE, explanation |-> NoExplanation,
                 error |-> NoError, cachedExplanations |-> {}]
Hooks == [isLoading |-> isLoading, explanation |-> explanation,
          error |-> error, cachedExplanations |-> cachedExplanations]
Snapshot(cs, h) == [currentSession |-> cs, hooks |-> h]
NotRendered == Snapshot(NoSession, InitialHooks)

SidebarOpen == isVoiceSidebarOpen \/ isImageSidebarOpen

RenderPending ==
    \/ mounted = "none" /\ SidebarOpen
    \/ mounted = "voice" /\ (~isVoiceSidebarOpen \/ sessionFresh \/ rendered.hooks # Hooks)
    \/ mounted = "image" /\ (~isImageSidebarOpen \/ sessionFresh \/ rendered.hooks # Hooks)

\* The user (or the network) acts only on what React has rendered.
UserMayAct == ~RenderPending /\ Len(requests) < MaxRequests

\* cachedExplanations: Record<string, Explanation>
CacheHas(cache, key) == \E e \in cache : e.key = key
CacheGet(cache, key) == (CHOOSE e \in cache : e.key = key).value
CachePut(cache, key, value) ==
    {e \in cache : e.key # key} \cup {[key |-> key, value |-> value]}

NoMessage == Message(NoId, "none", NoText, 0, NoId, NoValue, NoText, NoText, NoText, 0)

\* History: the step did e; a failed generation of the mounted instance is
\* remembered under its cache key.
RecordEvent(e) ==
    /\ lastEvent' = e
    /\ failedKeys' = IF e.kind = "failed" /\ e.alive THEN failedKeys \cup {e.key} ELSE failedKeys

\* A step of the network or of a suspended call: no user action, no new call.
NoteEvent(e) == RecordEvent(e) /\ UNCHANGED autoRequests

\* A step the user takes (a click in the page).
NoteUserEvent(e) == RecordEvent(e) /\ autoRequests' = 0

\* [...messages].reverse().find(msg => msg.type === 'assistant')
LastAssistantMessage(cs) ==
    LET at == {i \in 1..Len(cs.messages) : cs.messages[i].type = "assistant"}
    IN IF at = {} THEN NoMessage
       ELSE cs.messages[CHOOSE i \in at : \A j \in at : j <= i]

RemoveAt(seq, i) == [j \in 1..(Len(seq) - 1) |-> IF j < i THEN seq[j] ELSE seq[j + 1]]

\* Object identity of currentSession, as far as a mounted sidebar's hooks see
\* it: the store has replaced the object since the sidebar last rendered.
Fresh(replaced) == mounted # "none" /\ (sessionFresh \/ replaced)

\* The store's calls to the backend are logged in calls, each with the
\* arguments it holds in its closure and its status: "pending" while the
\* await is suspended, then "resolved" or "rejected" (the error was rethrown
\* to the caller, or for createSession only logged), or "skipped".
Call(op, id, title, session, status) ==
    [op |-> op, id |-> id, title |-> title, session |-> session, status |-> status]
Pending(op) == {c \in 1..Len(calls) : calls[c].op = op /\ calls[c].status = "pending"}
Settle(c, status) == [calls EXCEPT ![c].status = status]

\* The id the backend gives the session of the create call logged at c.
CreatedSessionId(c) == BackendSessionId(c)

\* Variant: createNewSession without the isCreatingSession check.
CreateNewSessionUnguarded ==
    /\ Len(sessions) < MaxSessions
    /\ Len(calls) < MaxCalls
    /\ LET newSession == [id |-> Uuid(uuidCount + 1), title |-> NewChatTitle, messages |-> <<>>]
       IN /\ isCreatingSession' = TRUE
          /\ sessions' = <<newSession>> \o sessions
          /\ currentSession' = newSession
          /\ sessionFresh' = Fresh(TRUE)
          /\ creating' = newSession.id
          /\ uuidCount' = uuidCount + 1
          /\ calls' = Append(calls, Call("create", newSession.id, NoText, NoSession, "pending"))
    /\ UNCHANGED <<now, quizVars, pageVars, chatVars, sidebarVars>>

\* createNewSession: the local session, then createSessionInDB is started.
CreateNewSession ==
    /\ Len(sessions) < MaxSessions
    /\ Len(calls) < MaxCalls
    /\ IF isCreatingSession
       THEN /\ calls' = Append(calls, Call("create", NoId, NoText, NoSession, "skipped"))
            /\ UNCHANGED <<currentSession, sessions, sessionFresh, isCreatingSession, creating, uuidCount>>
       ELSE LET newSession == [id |-> Uuid(uuidCount + 1), title |-> NewChatTitle, messages |-> <<>>]
            IN /\ isCreatingSession' = TRUE
               /\ sessions' = <<newSession>> \o sessions
               /\ currentSession' = newSession
               /\ sessionFresh' = Fresh(TRUE)
               /\ creating' = newSession.id
               /\ uuidCount' = uuidCount + 1
               /\ calls' = Append(calls, Call("create", newSession.id, NoText, NoSession, "pending"))
    /\ UNCHANGED <<now, quizVars, pageVars, chatVars, sidebarVars>>

\* createSessionInDB: apiService.createSession answered (session_id may be missing).
CreateSessionReturns(c, session_id) ==
    /\ c \in Pending("create")
    /\ IF session_id # NoId
       THEN /\ currentSession' = IF currentSession # NoSession
                                 THEN [currentSession EXCEPT !.id = session_id]
                                 ELSE NoSession
            /\ sessions' = [i \in 1..Len(sessions) |->
                              IF sessions[i].id = calls[c].id
                              THEN [sessions[i] EXCEPT !.id = session_id]
                              ELSE sessions[i]]
            /\ sessionFresh' = Fresh(currentSession # NoSession)
       ELSE UNCHANGED <<currentSession, sessions, sessionFresh>>
    /\ isCreatingSession' = FALSE
    /\ creating' = NotCreating
    /\ calls' = Settle(c, "resolved")
    /\ UNCHANGED <<uuidCount, now, quizVars, pageVars, chatVars, sidebarVars>>

CreateSessionFails(c) ==
    /\ c \in Pending("create")
    /\ isCreatingSession' = FALSE
    /\ creating' = NotCreating
    /\ calls' = Settle(c, "rejected")
    /\ UNCHANGED <<currentSession, sessions, sessionFresh, uuidCount, now,
                   quizVars, pageVars, chatVars, sidebarVars>>

\* ChatSidebar's mount effect: loadChatHistory(), up to its await.
LoadChatHistory ==
    /\ Len(calls) < MaxCalls
    /\ \A c \in 1..Len(calls) : calls[c].op # "history"
    /\ calls' = Append(calls, Call("history", NoId, NoText, NoSession, "pending"))
    /\ UNCHANGED <<storeVars, quizVars, pageVars, chatVars, sidebarVars>>

\* What getChatHistory answers: the chats of the user in the database, a
\* chat of an earlier visit and the ones createSession has made so far.
StoredChat(id) == [id |-> id, title |-> NewChatTitle, messages |-> <<>>]
EarlierChat == StoredChat(BackendSessionId(0))
RECURSIVE CreatedChats(_)
CreatedChats(c) ==
    IF c = 0 THEN <<>>
    ELSE (IF calls[c].op = "create" /\ calls[c].status # "skipped"
          THEN <<StoredChat(CreatedSessionId(c))>> ELSE <<>>) \o CreatedChats(c - 1)
ChatHistories == {<<>>, <<EarlierChat>>, CreatedChats(Len(calls)) \o <<EarlierChat>>}

\* getChatHistory answered: set({ sessions }) with the chats, their messages empty.
LoadChatHistoryReturns(c, chats) ==
    /\ c \in Pending("history")
    /\ sessions' = chats
    /\ calls' = Settle(c, "resolved")
    /\ UNCHANGED <<currentSession, sessionFresh, isCreatingSession, creating, uuidCount, now,
                   quizVars, pageVars, chatVars, sidebarVars>>

\* getChatHistory threw: every branch of the catch block sets sessions to [].
LoadChatHistoryFails(c) ==
    /\ c \in Pending("history")
    /\ sessions' = <<>>
    /\ calls' = Settle(c, "rejected")
    /\ UNCHANGED <<currentSession, sessionFresh, isCreatingSession, creating, uuidCount, now,
                   quizVars, pageVars, chatVars, sidebarVars>>

\* ChatSidebar.handleDeleteSession, confirmed: deleteSession(sessionId) up to its await.
DeleteSession(i) ==
    /\ i \in 1..Len(sessions)
    /\ Len(calls) < MaxCalls
    /\ calls' = Append(calls, Call("delete", sessions[i].id, NoText, NoSession, "pending"))
    /\ UNCHANGED <<storeVars, quizVars, pageVars, chatVars, sidebarVars>>

\* Variant: the store after deleteSession, with currentSession always cleared.
StoreAfterDeleteClearing(cs, ss, sessionId) ==
    [currentSession |-> NoSession,
     sessions |-> SelectSeq(ss, LAMBDA session : session.id # sessionId)]

\* deleteSession once deleteChat has succeeded.
StoreAfterDelete(cs, ss, sessionId) ==
    [currentSession |-> IF cs # NoSession /\ cs.id = sessionId THEN NoSession ELSE cs,
     sessions |-> SelectSeq(ss, LAMBDA session : session.id # sessionId)]

DeleteSessionReturns(c) ==
    /\ c \in Pending("delete")
    /\ LET after == StoreAfterDelete(currentSession, sessions, calls[c].id)
       IN /\ currentSession' = after.currentSession
          /\ sessions' = after.sessions
          /\ sessionFresh' = Fresh(after.currentSession # currentSession)
    /\ calls' = Settle(c, "resolved")
    /\ UNCHANGED <<isCreatingSession, creating, uuidCount, now,
                   quizVars, pageVars, chatVars, sidebarVars>>

\* deleteChat threw: console.error, throw error.
DeleteSessionFails(c) ==
    /\ c \in Pending("delete")
    /\ calls' = Settle(c, "rejected")
    /\ UNCHANGED <<storeVars, quizVars, pageVars, chatVars, sidebarVars>>

\* ChatSidebar.saveTitle: updateSessionTitle(editingSessionId, editTitle.trim())
\* up to its await.
UpdateSessionTitle(i, typed) ==
    /\ i \in 1..Len(sessions)
    /\ typed.s # ""
    /\ Len(calls) < MaxCalls
    /\ calls' = Append(calls, Call("title", sessions[i].id, TrimText(typed), NoSession, "pending"))
    /\ UNCHANGED <<storeVars, quizVars, pageVars, chatVars, sidebarVars>>

UpdateSessionTitleReturns(c) ==
    /\ c \in Pending("title")
    /\ LET after == StoreAfterUpdateTitle(currentSession, sessions, calls[c].id, calls[c].title)
       IN /\ currentSession' = after.currentSession
          /\ sessions' = after.sessions
          /\ sessionFresh' = Fresh(after.currentSession # currentSession)
    /\ calls' = Settle(c, "resolved")
    /\ UNCHANGED <<isCreatingSession, creating, uuidCount, now,
                   quizVars, pageVars, chatVars, sidebarVars>>

\* updateChatTitle threw: console.error, throw error.
UpdateSessionTitleFails(c) ==
    /\ c \in Pending("title")
    /\ calls' = Settle(c, "rejected")
    /\ UNCHANGED <<storeVars, quizVars, pageVars, chatVars, sidebarVars>>

\* ChatSidebar.handleSessionSelect: loadChatMessages(session.id) up to its await.
LoadChatMessages(i) ==
    /\ i \in 1..Len(sessions)
    /\ Len(calls) < MaxCalls
    /\ calls' = Append(calls, Call("messages", sessions[i].id, NoText, sessions[i], "pending"))
    /\ UNCHANGED <<storeVars, quizVars, pageVars, chatVars, sidebarVars>>

\* getChat answered with the chat of that id: it replaces the entry of the
\* same id in sessions and becomes the current session.
LoadChatMessagesReturns(c) ==
    /\ c \in Pending("messages")
    /\ LET session == StoredChat(calls[c].id)
       IN /\ sessions' = ReplaceSession(sessions, calls[c].id, session)
          /\ currentSession' = session
          /\ sessionFresh' = Fresh(TRUE)
    /\ calls' = Settle(c, "resolved")
    /\ UNCHANGED <<isCreatingSession, creating, uuidCount, now,
                   quizVars, pageVars, chatVars, sidebarVars>>

\* getChat threw: loadChatMessages rethrows and handleSessionSelect calls
\* setCurrentSession(session) with the session it was clicked on.
LoadChatMessagesFails(c) ==
    /\ c \in Pending("messages")
    /\ currentSession' = calls[c].session
    /\ sessionFresh' = Fresh(TRUE)
    /\ calls' = Settle(c, "rejected")
    /\ UNCHANGED <<sessions, isCreatingSession, creating, uuidCount, now,
                   quizVars, pageVars, chatVars, sidebarVars>>

\* ChatSidebar.handleSessionSelect when loadChatMessages fails: setCurrentSession(session).
SelectSession(i) ==
    /\ UserMayAct
    /\ i \in 1..Len(sessions)
    /\ sessions[i] # currentSession
    /\ currentSession' = sessions[i]
    /\ sessionFresh' = Fresh(TRUE)
    /\ NoteUserEvent(NoEvent)
    /\ UNCHANGED <<sessions, isCreatingSession, creating, uuidCount, now, quizVars, pageVars, callVars, chatVars,
                   isVoiceSidebarOpen, isImageSidebarOpen, inst, mounted, hookVars,
                   rendered, requests>>

\* ChatSidebar.saveTitle: updateSessionTitle(editingSessionId, editTitle.trim()),
\* updateChatTitle succeeding.
SaveTitle(i, typed) ==
    /\ UserMayAct
    /\ i \in 1..Len(sessions)
    /\ typed.s # ""
    /\ LET after == StoreAfterUpdateTitle(currentSession, sessions, sessions[i].id, TrimText(typed))
       IN /\ currentSession' = after.currentSession
          /\ sessions' = after.sessions
    /\ sessionFresh' = Fresh(currentSession.id = sessions[i].id)
    /\ NoteUserEvent(NoEvent)
    /\ UNCHANGED <<isCreatingSession, creating, uuidCount, now, quizVars, pageVars, callVars, chatVars,
                   isVoiceSidebarOpen, isImageSidebarOpen, inst, mounted, hookVars,
                   rendered, requests>>

\* Three seconds pass and the 3000 ms timers of ChatInput run down. The
\* model follows the clock only while such a timer is pending.
Tick ==
    /\ \E i \in 1..Len(inputTimers) : inputTimers[i] > 0
    /\ now' = now + SubmitDelay
    /\ inputTimers' = [i \in 1..Len(inputTimers) |->
                         IF inputTimers[i] > SubmitDelay THEN inputTimers[i] - SubmitDelay ELSE 0]
    /\ UNCHANGED <<currentSession, sessions, sessionFresh, isCreatingSession, creating,
                   uuidCount, turns, inputLoading, recordings, quizVars, pageVars, callVars, sidebarVars>>

(***************************************************************************)
(* ChatInput.handleSubmit and chatStore.addMessage's sendToBackend         *)
(***************************************************************************)

\* What the user types: blank, or a question with padding around it.
TypedMessages == {Text("query", "", TRUE), Text("query", "Friction", TRUE)}

SentimentLabels == {NoValue, "NEGATIVE"}
\* The query_id /text_to_sentiment/ answers with for turn t (or none), and
\* the one /ask/ answers with: none, the same, or one of its own.
SentimentQueryIds(t) == {NoId, QueryId(t)}
AskQueryIds(t) == {NoId, QueryId(t), QueryId(t + MaxTurns)}

\* What /ask/ answers for question s: which tiers it carries, and its query_id.
TierShapes == {<<FALSE, FALSE, FALSE>>, <<TRUE, FALSE, FALSE>>, <<TRUE, TRUE, TRUE>>}
AskResponse(s, shape, query_id, sentiment_label) ==
    [query_id |-> query_id,
     sentiment_label |-> sentiment_label,
     main_response |-> IF shape[1] THEN Text("main", s, TRUE) ELSE NoText,
     simplified_response |-> IF shape[2] THEN Text("simplified", s, TRUE) ELSE NoText,
     detailed_response |-> IF shape[3] THEN Text("detailed", s, TRUE) ELSE NoText]
AskResponses(t, s) ==
    {AskResponse(s, shape, q, "NEGATIVE") : shape \in TierShapes, q \in AskQueryIds(t)}

\* response.sentiment_label || 'NEUTRAL'
LabelOrNeutral(sentiment_label) ==
    IF sentiment_label = NoValue THEN "NEUTRAL" ELSE sentiment_label

\* The assistant message addMessage builds from askResponse.
AssistantMessage(askResponse, uuid, timestamp, turn) ==
    Message(IF askResponse.query_id # NoId THEN askResponse.query_id ELSE uuid,
            "assistant",
            CleanMarkdown(IF askResponse.simplified_response # NoText
                          THEN askResponse.simplified_response
                          ELSE askResponse.main_response),
            timestamp,
            askResponse.query_id,
            askResponse.sentiment_label,
            CleanMarkdown(askResponse.main_response),
            CleanMarkdown(askResponse.simplified_response),
            CleanMarkdown(askResponse.detailed_response),
            turn)

\* The step sendToBackend takes once sendTextMessage has answered with a
\* query_id: the title update for a 'New Chat' whose closure holds one
\* message, else askQuestion.
AfterSentiment(turn) ==
    IF turn.sessionTitle = NewChatTitle /\ turn.sessionLen = 1 THEN "title" ELSE "ask"

\* Variant: the turn goes on whether or not a query_id came back.
StageAfterSentimentAlways(turn, query_id) == AfterSentiment(turn)

\* The stage that follows sendTextMessage's answer.
StageAfterSentiment(turn, query_id) ==
    IF query_id # NoId THEN AfterSentiment(turn) ELSE "done"

\* Does sendToBackend append an assistant message for this answer of /ask/?
HasReply(askResponse) == askResponse.main_response # NoText

HandleSubmit(typed) ==
    /\ ~inputLoading
    /\ currentSession # NoSession
    /\ typed.s # ""
    /\ Len(turns) < MaxTurns
    /\ LET userMessage == Message(Uuid(uuidCount + 1), "user", TrimText(typed), now,
                                  NoId, NoValue, NoText, NoText, NoText, 0)
           after == StoreAfterAddMessage(currentSession, sessions, userMessage)
       IN /\ currentSession' = after.currentSession
          /\ sessions' = after.sessions
          /\ sessionFresh' = Fresh(MessageAdded(currentSession, userMessage))
          /\ turns' = IF MessageAdded(currentSession, userMessage) /\ SendsToBackend(userMessage)
                      THEN Append(turns, [message |-> userMessage,
                                          sessionId |-> currentSession.id,
                                          sessionTitle |-> currentSession.title,
                                          sessionLen |-> Len(currentSession.messages),
                                          pc |-> "sentiment",
                                          query_id |-> NoId,
                                          sentiment_label |-> NoValue,
                                          askLabel |-> NoValue,
                                          askReturned |-> FALSE,
                                          askMain |-> NoText,
                                          replied |-> FALSE])
                      ELSE turns
    /\ uuidCount' = uuidCount + 1
    /\ inputLoading' = TRUE
    /\ inputTimers' = Append(inputTimers, SubmitDelay)
    /\ UNCHANGED <<isCreatingSession, creating, now, recordings, quizVars, pageVars, callVars, sidebarVars>>

TimerFires(i) ==
    /\ i \in 1..Len(inputTimers)
    /\ inputTimers[i] = 0
    /\ inputTimers' = [j \in 1..(Len(inputTimers) - 1) |->
                         IF j < i THEN inputTimers[j] ELSE inputTimers[j + 1]]
    /\ inputLoading' = FALSE
    /\ UNCHANGED <<storeVars, turns, recordings, quizVars, pageVars, callVars, sidebarVars>>

\* apiService.sendTextMessage answered.
SentimentReturns(t, query_id, sentiment_label) ==
    /\ t \in 1..Len(turns)
    /\ turns[t].pc = "sentiment"
    /\ LET turn == turns[t]
           updatedUserMsg == [turn.message EXCEPT !.id = query_id, !.sentiment = sentiment_label]
           after == StoreAfterUpdateMessage(currentSession, sessions, turn.message.id, updatedUserMsg)
           next == StageAfterSentiment(turn, query_id)
       IN /\ IF query_id # NoId
             THEN /\ currentSession' = after.currentSession
                  /\ sessions' = after.sessions
                  /\ sessionFresh' = Fresh(currentSession # NoSession)
             ELSE UNCHANGED <<currentSession, sessions, sessionFresh>>
          /\ turns' = [turns EXCEPT ![t] =
                         [turn EXCEPT !.pc = next,
                                      !.query_id = query_id,
                                      !.sentiment_label = sentiment_label,
                                      !.askLabel = IF next = "ask"
                                                   THEN LabelOrNeutral(sentiment_label)
                                                   ELSE NoValue]]
    /\ UNCHANGED <<isCreatingSession, creating, uuidCount, now, inputLoading, inputTimers, recordings,
                   quizVars, pageVars, callVars, sidebarVars>>

SentimentFails(t) ==
    /\ t \in 1..Len(turns)
    /\ turns[t].pc = "sentiment"
    /\ turns' = [turns EXCEPT ![t].pc = "done"]
    /\ UNCHANGED <<storeVars, inputLoading, inputTimers, recordings, quizVars, pageVars, callVars, sidebarVars>>

\* updateSessionTitle of the auto-title step finished; ok: updateChatTitle succeeded.
TitleReturns(t, ok) ==
    /\ t \in 1..Len(turns)
    /\ turns[t].pc = "title"
    /\ LET turn == turns[t]
           after == StoreAfterUpdateTitle(currentSession, sessions, turn.sessionId, turn.message.content)
       IN /\ IF ok
             THEN /\ currentSession' = after.currentSession
                  /\ sessions' = after.sessions
                  /\ sessionFresh' = Fresh(currentSession.id = turn.sessionId)
             ELSE UNCHANGED <<currentSession, sessions, sessionFresh>>
          /\ turns' = [turns EXCEPT ![t] =
                         [turn EXCEPT !.pc = "ask",
                                      !.askLabel = LabelOrNeutral(turn.sentiment_label)]]
    /\ UNCHANGED <<isCreatingSession, creating, uuidCount, now, inputLoading, inputTimers, recordings,
                   quizVars, pageVars, callVars, sidebarVars>>

\* apiService.askQuestion answered.
AskReturns(t, askResponse) ==
    /\ t \in 1..Len(turns)
    /\ turns[t].pc = "ask"
    /\ LET turn == turns[t]
           assistantMessage == AssistantMessage(askResponse, Uuid(uuidCount + 1), now, t)
           after == StoreAfterAddMessage(currentSession, sessions, assistantMessage)
       IN /\ IF HasReply(askResponse)
             THEN /\ currentSession' = after.currentSession
                  /\ sessions' = after.sessions
                  /\ sessionFresh' = Fresh(MessageAdded(currentSession, assistantMessage))
                  /\ uuidCount' = IF askResponse.query_id = NoId THEN uuidCount + 1 ELSE uuidCount
             ELSE UNCHANGED <<currentSession, sessions, sessionFresh, uuidCount>>
          /\ turns' = [turns EXCEPT ![t] =
                         [turn EXCEPT !.pc = "done",
                                      !.askReturned = TRUE,
                                      !.askMain = askResponse.main_response,
                                      !.replied = HasReply(askResponse)
                                                  /\ MessageAdded(currentSession, assistantMessage)]]
    /\ UNCHANGED <<isCreatingSession, creating, now, inputLoading, inputTimers, recordings,
                   quizVars, pageVars, callVars, sidebarVars>>

AskFails(t) ==
    /\ t \in 1..Len(turns)
    /\ turns[t].pc = "ask"
    /\ turns' = [turns EXCEPT ![t].pc = "done"]
    /\ UNCHANGED <<storeVars, inputLoading, inputTimers, recordings, quizVars, pageVars, callVars, sidebarVars>>

(***************************************************************************)
(* ChatInput.handleStopRecording                                           *)
(***************************************************************************)
\* What /audio_to_sentiment/ answers for recording k: a query_id of its own
\* or none, a transcript or none, and the tiers it carries (main, simplified).
AudioQueryIds(k) == {NoId, QueryId(2 * MaxTurns + k)}
Transcripts == {NoText, Text("query", "Friction", FALSE)}
AudioTierShapes == {<<FALSE, FALSE>>, <<TRUE, FALSE>>, <<FALSE, TRUE>>, <<TRUE, TRUE>>}
AudioResponse(query_id, transcript, shape) ==
    [query_id |-> query_id,
     transcript |-> transcript,
     sentiment_label |-> "NEGATIVE",
     groq_response_main |-> IF shape[1] THEN Text("main", "Friction", FALSE) ELSE NoText,
     groq_response_simplified |-> IF shape[2] THEN Text("simplified", "Friction", FALSE) ELSE NoText]
AudioResponses(k) ==
    {AudioResponse(q, transcript, shape) :
        q \in AudioQueryIds(k), transcript \in Transcripts, shape \in AudioTierShapes}

\* audioResponse.transcript || 'Audio message'
AudioMessageText == Text("query", "Audio message", FALSE)
AudioUserMessage(audioResponse, uuid, timestamp) ==
    Message(IF audioResponse.query_id # NoId THEN audioResponse.query_id ELSE uuid,
            "user",
            IF audioResponse.transcript # NoText THEN audioResponse.transcript ELSE AudioMessageText,
            timestamp,
            audioResponse.query_id,
            audioResponse.sentiment_label,
            NoText, NoText, NoText, 0)

\* if (audioResponse.groq_response_simplified || audioResponse.groq_response_main)
AudioHasReply(audioResponse) ==
    audioResponse.groq_response_simplified # NoText \/ audioResponse.groq_response_main # NoText

\* The assistant message of an audio turn: it has no detailed_response.
AudioAssistantMessage(audioResponse, uuid, timestamp) ==
    Message(uuid,
            "assistant",
            IF audioResponse.groq_response_simplified # NoText
            THEN audioResponse.groq_response_simplified
            ELSE audioResponse.groq_response_main,
            timestamp,
            NoId,
            NoValue,
            audioResponse.groq_response_main,
            audioResponse.groq_response_simplified,
            NoText,
            0)

\* The microphone button while recording: handleStopRecording up to its awaits.
HandleStopRecording ==
    /\ ~inputLoading
    /\ currentSession # NoSession
    /\ Len(recordings) < MaxRecordings
    /\ recordings' = Append(recordings, "sending")
    /\ inputLoading' = TRUE
    /\ UNCHANGED <<storeVars, turns, inputTimers, quizVars, pageVars, callVars, sidebarVars>>

\* apiService.sendAudioMessage answered: addMessage(userMessage), then
\* addMessage(assistantMessage) if the answer carries a response.  A user
\* message without a query_id starts sendToBackend like a typed one.
AudioMessageReturns(k, audioResponse) ==
    /\ k \in 1..Len(recordings)
    /\ recordings[k] = "sending"
    /\ audioResponse.query_id = NoId => Len(turns) < MaxTurns
    /\ LET ownId == audioResponse.query_id = NoId
           userMessage == AudioUserMessage(audioResponse, Uuid(uuidCount + 1), now)
           uuidsUsed == IF ownId THEN 1 ELSE 0
           assistantMessage ==
               AudioAssistantMessage(audioResponse, Uuid(uuidCount + uuidsUsed + 1), now)
           after1 == StoreAfterAddMessage(currentSession, sessions, userMessage)
           after2 == IF AudioHasReply(audioResponse)
                     THEN StoreAfterAddMessage(after1.currentSession, after1.sessions,
                                               assistantMessage)
                     ELSE after1
           userAdded == MessageAdded(currentSession, userMessage)
       IN /\ currentSession' = after2.currentSession
          /\ sessions' = after2.sessions
          /\ sessionFresh' = Fresh(after2.currentSession # currentSession)
          /\ uuidCount' = uuidCount + uuidsUsed + (IF AudioHasReply(audioResponse) THEN 1 ELSE 0)
          /\ turns' = IF userAdded /\ SendsToBackend(userMessage)
                      THEN Append(turns, [message |-> userMessage,
                                          sessionId |-> currentSession.id,
                                          sessionTitle |-> currentSession.title,
                                          sessionLen |-> Len(currentSession.messages),
                                          pc |-> "sentiment",
                                          query_id |-> NoId,
                                          sentiment_label |-> NoValue,
                                          askLabel |-> NoValue,
                                          askReturned |-> FALSE,
                                          askMain |-> NoText,
                                          replied |-> FALSE])
                      ELSE turns
    /\ recordings' = [recordings EXCEPT ![k] = "done"]
    /\ inputLoading' = FALSE
    /\ UNCHANGED <<isCreatingSession, creating, now, inputTimers, quizVars, pageVars, callVars, sidebarVars>>

\* apiService.sendAudioMessage threw: alert('Failed to send audio message.')
AudioMessageFails(k) ==
    /\ k \in 1..Len(recordings)
    /\ recordings[k] = "sending"
    /\ recordings' = [recordings EXCEPT ![k] = "done"]
    /\ inputLoading' = FALSE
    /\ UNCHANGED <<storeVars, turns, inputTimers, quizVars, pageVars, callVars, sidebarVars>>

(***************************************************************************)
(* VoiceSidebar  (src/frontend/components/Chat/ChatHeader.tsx, from 232)   *)
(*                                                                         *)
(* isPlaying, currentTime, duration and currentLine are left out: they     *)
(* change only while an explanation is displayed, when the open effect     *)
(* does nothing.                                                           *)
(***************************************************************************)
\* Audio references the backend answers with: a path relative to the
\* backend, or an absolute URL.
Url(base, path) == [base |-> base, path |-> path]
NoUrl == Url("", "")

\* convertToBackendURL: a URL that starts with "/api/" gets the backend's origin.
ConvertToBackendURL(url) ==
    IF url.base = "" /\ url.path = "/api/static/audio/1.mp3"
    THEN Url("http://localhost:8000", url.path)
    ELSE url

\* Timing entries. Times are in units of 50 ms, the estimate's time per character.
Timing(start, end, text) == [start |-> start, end |-> end, text |-> text]

\* The timing lists of the backend's voice synthesizer: measured entries, each
\* ending no later than the next one starts.
MeasuredTimings == <<Timing(1, 20, "sentence"), Timing(22, 40, "sentence")>>
StoredTimings == <<Timing(2, 30, "sentence")>>
NoTimings == <<>>

\* What getAudioByQueryId and generateVoice answer.
VoiceResponse(err, audio_url, tts_timings, timings) ==
    [error |-> err, audio_url |-> audio_url, tts_timings |-> tts_timings, timings |-> timings]
VoiceResponses ==
    {VoiceResponse(NoValue, Url("", "/api/static/audio/1.mp3"), MeasuredTimings, NoTimings),
     VoiceResponse(NoValue, Url("https://storage", "/audio/2.mp3"), NoTimings, StoredTimings),
     VoiceResponse(NoValue, Url("", "/api/static/audio/1.mp3"), NoTimings, NoTimings),
     VoiceResponse("quota exceeded", NoUrl, NoTimings, NoTimings),
     VoiceResponse(NoValue, NoUrl, NoTimings, NoTimings)}

\* What an await of the voice API throws.
ThrownErrors == {"Request failed with status code 500", "timeout of 30000ms exceeded"}

\* The catch block's message for a thrown error.
VoiceErrorMessage(message) ==
    IF message = "Request failed with status code 500"
    THEN "Voice generation service is temporarily unavailable. Please try again in a moment."
    ELSE IF message = "timeout of 30000ms exceeded"
    THEN "Voice generation timed out. The content might be too long."
    ELSE "Voice generation failed"

\* The error for a message without a detailed_response.
DetailedOnlyError ==
    "Voice explanations are only available for detailed responses. Please toggle to detailed view first."

\* lastAssistantMessage.query_id || lastAssistantMessage.id
VoiceCacheKey(m) == IF m.query_id # NoId THEN m.query_id ELSE m.id

\* Variant: the tier shown in the chat is narrated.
TextToVoiceShown(m) ==
    IF m.simplified_response # NoText THEN m.simplified_response ELSE m.main_response

\* The tier generateVoiceExplanation passes on as textToVoice.
TextToVoice(m) == m.detailed_response

\* May generateVoiceExplanation synthesize for this message?
HasTextToVoice(m) == m.detailed_response # NoText

\* textToVoice.split('.') for the detailed responses of the model: each piece
\* with the whitespace before it (lead) and its trimmed text (body).
Piece(lead, body) == [lead |-> lead, body |-> body]
SplitAtDots(text) ==
    IF text.s = "Friction"
    THEN <<Piece("", "Friction opposes motion"), Piece(" ", "It turns motion into heat"),
           Piece("\n\n", "Rough surfaces grip more"), Piece(" ", "")>>
    ELSE <<Piece("", "It depends on the surfaces"), Piece("", "")>>

\* .filter(sentence => sentence.trim().length > 0).map(sentence => sentence.trim() + '.')
\* The sentence is kept as its text without the dot and its length with it.
Sentence(piece) == [text |-> piece.body, length |-> Len(piece.body) + 1]
RECURSIVE Sentences(_)
Sentences(pieces) ==
    IF pieces = <<>> THEN <<>>
    ELSE (IF Len(Head(pieces).body) > 0 THEN <<Sentence(Head(pieces))>> ELSE <<>>)
         \o Sentences(Tail(pieces))

\* Variant: the entry's end is the duration alone.
TimingOfDurationOnly(sentence, startTime) == Timing(startTime, sentence.length, sentence.text)

\* The callback of sentences.map for the estimate: duration = sentence.length * 0.05.
TimingOf(sentence, startTime) == Timing(startTime, startTime + sentence.length, sentence.text)

\* let startTime = 0; sentences.map(...), with startTime += duration after each entry.
RECURSIVE EstimateFrom(_, _, _)
EstimateFrom(sentences, index, startTime) ==
    IF index > Len(sentences) THEN <<>>
    ELSE <<TimingOf(sentences[index], startTime)>>
         \o EstimateFrom(sentences, index + 1, startTime + sentences[index].length)

\* The timings the explanation shows.
VoiceTimings(response, textToVoice) ==
    IF Len(response.tts_timings) > 0 THEN response.tts_timings
    ELSE IF Len(response.timings) > 0 THEN response.timings
    ELSE EstimateFrom(Sentences(SplitAtDots(textToVoice)), 1, 0)

VoiceExplanation(text, timings, audioUrl) ==
    [text |-> text, timings |-> timings, audioUrl |-> audioUrl]

\* May a successful result of a call started in session sessionIdAtStart be
\* applied, with sessionNow the store's current session?
StillSameSession(sessionNow, sessionIdAtStart) == sessionNow.id = sessionIdAtStart

\* The session-change effect (deps: currentSession, cachedExplanations).
VoiceResetEffect(cs, cache, h) ==
    LET m == LastAssistantMessage(cs)
        hit == /\ cs # NoSession
               /\ Len(cs.messages) > 0
               /\ m # NoMessage
               /\ CacheHas(cache, VoiceCacheKey(m))
    IN [h EXCEPT !.explanation = IF hit THEN CacheGet(cache, VoiceCacheKey(m)) ELSE NoExplanation,
                 !.error = NoError,
                 !.isLoading = FALSE]

\* The open effect's condition (deps: isOpen, currentSession, voiceExplanation, isPlaying).
VoiceOpenEffectFires(snap) ==
    /\ snap.currentSession # NoSession
    /\ snap.hooks.explanation = NoExplanation
    /\ ~snap.hooks.isLoading

\* generateVoiceExplanation up to its first await, called with the closure
\* (cs, cache) of a render, on the live hook state h: the hook state after
\* it, the call it leaves suspended (if any) and what it did.
VoiceGenerate(cs, cache, h, instance) ==
    LET m == LastAssistantMessage(cs)
        key == VoiceCacheKey(m)
    IN IF cs = NoSession \/ Len(cs.messages) = 0
       THEN [hooks |-> [h EXCEPT !.error = "No messages to explain"],
             request |-> NoGenerateRequest,
             event |-> [kind |-> "refused", key |-> NoId]]
       ELSE IF m = NoMessage
       THEN [hooks |-> [h EXCEPT !.error = "No assistant messages to explain"],
             request |-> NoGenerateRequest,
             event |-> [kind |-> "refused", key |-> NoId]]
       ELSE IF ~HasTextToVoice(m)
       THEN [hooks |-> [h EXCEPT !.error = DetailedOnlyError, !.isLoading = FALSE],
             request |-> NoGenerateRequest,
             event |-> [kind |-> "refused", key |-> key]]
       ELSE IF CacheHas(cache, key)
       THEN [hooks |-> [h EXCEPT !.explanation = CacheGet(cache, key),
                                 !.error = NoError,
                                 !.isLoading = FALSE],
             request |-> NoGenerateRequest,
             event |-> [kind |-> "cached", key |-> key]]
       ELSE [hooks |-> [h EXCEPT !.isLoading = TRUE, !.error = NoError],
             request |-> [stage |-> IF m.query_id # NoId THEN "existing" ELSE "generate",
                          inst |-> instance,
                          sessionIdAtStart |-> cs.id,
                          cacheKey |-> key,
                          message |-> m,
                          text |-> TextToVoice(m)],
             event |-> [kind |-> "requested", key |-> key]]

\* The hook state, the requests and the history after a call of generate.
\* byEffect: the call came from an open effect, not from a button.
SidebarAfterGenerate(g, byEffect) ==
    /\ isLoading' = g.hooks.isLoading
    /\ explanation' = g.hooks.explanation
    /\ error' = g.hooks.error
    /\ cachedExplanations' = g.hooks.cachedExplanations
    /\ requests' = IF g.request = NoGenerateRequest THEN requests ELSE Append(requests, g.request)
    /\ RecordEvent(g.event)
    /\ autoRequests' = IF ~byEffect THEN 0
                       ELSE IF g.request # NoGenerateRequest /\ autoRequests < MaxAutoRequests
                       THEN autoRequests + 1
                       ELSE autoRequests

SidebarUnmount ==
    /\ mounted' = "none"
    /\ isLoading' = FALSE
    /\ explanation' = NoExplanation
    /\ error' = NoError
    /\ cachedExplanations' = {}
    /\ rendered' = NotRendered
    /\ sessionFresh' = FALSE
    /\ lastEvent' = NoEvent
    /\ failedKeys' = {}
    /\ UNCHANGED <<inst, requests, autoRequests>>

\* React renders VoiceSidebar (mounting or unmounting it when the store's
\* isVoiceSidebarOpen changed) and runs the effects whose deps changed.
VoiceRender ==
    /\ RenderPending
    /\ mounted = "voice" \/ (mounted = "none" /\ isVoiceSidebarOpen)
    /\ IF ~isVoiceSidebarOpen
       THEN SidebarUnmount
       ELSE LET mounting == mounted = "none"
                h0 == IF mounting THEN InitialHooks ELSE Hooks
                snap == Snapshot(currentSession, h0)
                reset == \/ mounting
                         \/ sessionFresh
                         \/ h0.cachedExplanations # rendered.hooks.cachedExplanations
                open == \/ mounting
                        \/ sessionFresh
                        \/ h0.explanation # rendered.hooks.explanation
                h1 == IF reset
                      THEN VoiceResetEffect(currentSession, h0.cachedExplanations, h0)
                      ELSE h0
                instance == IF mounting THEN inst + 1 ELSE inst
                g == IF open /\ VoiceOpenEffectFires(snap)
                     THEN VoiceGenerate(currentSession, h0.cachedExplanations, h1, instance)
                     ELSE [hooks |-> h1, request |-> NoGenerateRequest, event |-> NoEvent]
            IN /\ mounted' = "voice"
               /\ inst' = instance
               /\ rendered' = snap
               /\ sessionFresh' = FALSE
               /\ SidebarAfterGenerate(g, TRUE)
    /\ UNCHANGED <<currentSession, sessions, isCreatingSession, creating, uuidCount, now,
                   quizVars, pageVars, callVars, chatVars, isVoiceSidebarOpen, isImageSidebarOpen>>

\* The two flags after toggleVoiceSidebar() and after toggleImageSidebar().
SidebarFlags(voice, image) == [isVoiceSidebarOpen |-> voice, isImageSidebarOpen |-> image]
AfterToggleVoice(flags) == SidebarFlags(~flags.isVoiceSidebarOpen, FALSE)
AfterToggleImage(flags) == SidebarFlags(FALSE, ~flags.isImageSidebarOpen)

\* The event of ExplanationToggle's close button.
ClosedEvent == [kind |-> "closed"]

\* Variant: toggleVoiceSidebar that leaves the image sidebar's flag alone.
ToggleVoiceSidebarOnly ==
    /\ UserMayAct
    /\ isVoiceSidebarOpen \/ inst < MaxMounts
    /\ isVoiceSidebarOpen' = ~isVoiceSidebarOpen
    /\ NoteUserEvent(NoEvent)
    /\ UNCHANGED <<storeVars, quizVars, pageVars, callVars, chatVars, isImageSidebarOpen,
                   inst, mounted, hookVars, rendered, requests>>

\* toggleVoiceSidebar (ExplanationToggle, or the sidebar's close button)
ToggleVoiceSidebar ==
    /\ UserMayAct
    /\ isVoiceSidebarOpen \/ inst < MaxMounts
    /\ isVoiceSidebarOpen' = ~isVoiceSidebarOpen
    /\ isImageSidebarOpen' = FALSE
    /\ NoteUserEvent(NoEvent)
    /\ UNCHANGED <<storeVars, quizVars, pageVars, callVars, chatVars, inst, mounted, hookVars, rendered, requests>>

\* The "Check for Detailed Response" button: onClick={generateVoiceExplanation}
VoiceClickGenerate ==
    /\ mounted = "voice"
    /\ UserMayAct
    /\ ~rendered.hooks.isLoading
    /\ rendered.hooks.error = NoError
    /\ rendered.hooks.explanation = NoExplanation
    /\ rendered.currentSession # NoSession
    /\ Len(rendered.currentSession.messages) > 0
    /\ SidebarAfterGenerate(VoiceGenerate(rendered.currentSession,
                                          rendered.hooks.cachedExplanations, Hooks, inst), FALSE)
    /\ UNCHANGED <<storeVars, quizVars, pageVars, callVars, chatVars, isVoiceSidebarOpen, isImageSidebarOpen,
                   inst, mounted, rendered>>

\* The "Try Again" button: retryGeneration
VoiceRetryGeneration ==
    /\ mounted = "voice"
    /\ UserMayAct
    /\ ~rendered.hooks.isLoading
    /\ rendered.hooks.error # NoError
    /\ SidebarAfterGenerate(VoiceGenerate(rendered.currentSession,
                                          rendered.hooks.cachedExplanations,
                                          [Hooks EXCEPT !.explanation = NoExplanation,
                                                        !.error = NoError],
                                          inst), FALSE)
    /\ UNCHANGED <<storeVars, quizVars, pageVars, callVars, chatVars, isVoiceSidebarOpen, isImageSidebarOpen,
                   inst, mounted, rendered>>

\* Is the instance that started the call still the mounted one?
Alive(r) == mounted # "none" /\ r.inst = inst

\* generateVoiceExplanation from the response checks on, for the call
\* requests[i] holding a response of the voice API.
VoiceFinish(i, response) ==
    LET r == requests[i]
        failure == IF response.error # NoValue THEN "API Error"
                   ELSE IF response.audio_url = NoUrl THEN "No audio URL returned from API"
                   ELSE NoValue
        newVoiceExplanation == VoiceExplanation(r.text, VoiceTimings(response, r.text),
                                                ConvertToBackendURL(response.audio_url))
        apply == failure = NoValue /\ StillSameSession(currentSession, r.sessionIdAtStart)
    IN /\ requests' = RemoveAt(requests, i)
       /\ NoteEvent([kind |-> IF failure # NoValue THEN "failed"
                                 ELSE IF apply THEN "applied" ELSE "discarded",
                        key |-> r.cacheKey,
                        alive |-> Alive(r),
                        sessionIdAtStart |-> r.sessionIdAtStart,
                        value |-> newVoiceExplanation])
       /\ IF Alive(r)
          THEN /\ isLoading' = FALSE
               /\ explanation' = IF apply THEN newVoiceExplanation ELSE explanation
               /\ cachedExplanations' = IF apply
                                        THEN CachePut(cachedExplanations, r.cacheKey, newVoiceExplanation)
                                        ELSE cachedExplanations
               /\ error' = IF failure # NoValue THEN VoiceErrorMessage(failure) ELSE error
          ELSE UNCHANGED hookVars

\* apiService.getAudioByQueryId answered: stored audio is used, else
\* apiService.generateVoice is called.
ExistingAudioReturns(i, response) ==
    /\ ~RenderPending
    /\ i \in 1..Len(requests)
    /\ requests[i].stage = "existing"
    /\ IF response.audio_url = NoUrl
       THEN /\ requests' = [requests EXCEPT ![i].stage = "generate"]
            /\ NoteEvent([kind |-> "synthesize", key |-> requests[i].cacheKey])
            /\ UNCHANGED hookVars
       ELSE VoiceFinish(i, response)
    /\ UNCHANGED <<storeVars, quizVars, pageVars, callVars, chatVars, isVoiceSidebarOpen, isImageSidebarOpen,
                   inst, mounted, rendered>>

ExistingAudioThrows(i) ==
    /\ ~RenderPending
    /\ i \in 1..Len(requests)
    /\ requests[i].stage = "existing"
    /\ requests' = [requests EXCEPT ![i].stage = "generate"]
    /\ NoteEvent([kind |-> "synthesize", key |-> requests[i].cacheKey])
    /\ UNCHANGED <<storeVars, quizVars, pageVars, callVars, chatVars, isVoiceSidebarOpen, isImageSidebarOpen,
                   inst, mounted, hookVars, rendered>>

\* Variant: a result that is applied is also written into the store's message.
GenerateVoiceReturnsIntoMessage(i, response) ==
    /\ ~RenderPending
    /\ i \in 1..Len(requests)
    /\ requests[i].stage = "generate"
    /\ VoiceFinish(i, response)
    /\ LET r == requests[i]
           voiced == response.error = NoValue /\ response.audio_url # NoUrl
                     /\ StillSameSession(currentSession, r.sessionIdAtStart)
           after == StoreAfterUpdateMessage(currentSession, sessions, r.message.id,
                                            [r.message EXCEPT !.content = r.text])
       IN IF voiced
          THEN /\ currentSession' = after.currentSession
               /\ sessions' = after.sessions
               /\ sessionFresh' = Fresh(TRUE)
          ELSE UNCHANGED <<currentSession, sessions, sessionFresh>>
    /\ UNCHANGED <<isCreatingSession, creating, uuidCount, now, quizVars, pageVars, callVars, chatVars,
                   isVoiceSidebarOpen, isImageSidebarOpen, inst, mounted, rendered>>

\* apiService.generateVoice answered.
GenerateVoiceReturns(i, response) ==
    /\ ~RenderPending
    /\ i \in 1..Len(requests)
    /\ requests[i].stage = "generate"
    /\ VoiceFinish(i, response)
    /\ UNCHANGED <<storeVars, quizVars, pageVars, callVars, chatVars, isVoiceSidebarOpen, isImageSidebarOpen,
                   inst, mounted, rendered>>

GenerateVoiceThrows(i, message) ==
    /\ ~RenderPending
    /\ i \in 1..Len(requests)
    /\ requests[i].stage = "generate"
    /\ requests' = RemoveAt(requests, i)
    /\ NoteEvent([kind |-> "failed", key |-> requests[i].cacheKey,
                     alive |-> Alive(requests[i]),
                     sessionIdAtStart |-> requests[i].sessionIdAtStart,
                     value |-> NoExplanation])
    /\ IF Alive(requests[i])
       THEN /\ isLoading' = FALSE
            /\ error' = VoiceErrorMessage(message)
            /\ UNCHANGED <<explanation, cachedExplanations>>
       ELSE UNCHANGED hookVars
    /\ UNCHANGED <<storeVars, quizVars, pageVars, callVars, chatVars, isVoiceSidebarOpen, isImageSidebarOpen,
                   inst, mounted, rendered>>

(***************************************************************************)
(* ImageSidebar  (src/frontend/components/Chat/ImageSidebar.tsx)           *)
(***************************************************************************)
\* What GET /image/explain-topic answers for a query: a 200 with one of two
\* payloads, or a response that is not ok.
ImageData(ok, image_url) == [ok |-> ok, image_url |-> image_url]
ImageResponses ==
    {ImageData(TRUE, Url("", "generated_images/friction.png")),
     ImageData(TRUE, Url("", "textbooks/images/p12.png")),
     ImageData(FALSE, NoUrl)}

\* currentSession.messages.findIndex(msg => msg.id === id), 0 for -1
FindIndex(messages, id) ==
    LET at == {i \in 1..Len(messages) : messages[i].id = id}
    IN IF at = {} THEN 0 ELSE CHOOSE i \in at : \A j \in at : i <= j

\* The message before the last assistant message, when it is a user message.
UserMessageOf(cs, m) ==
    LET messageIndex == FindIndex(cs.messages, m.id)
    IN IF messageIndex > 1 /\ cs.messages[messageIndex - 1].type = "user"
       THEN cs.messages[messageIndex - 1]
       ELSE NoMessage

\* `${userMessage.content.trim().toLowerCase()}_${query_id || id}`
ImageCacheKey(userMessage, m) ==
    [query |-> LowerCase(TrimText(userMessage.content).s),
     id |-> IF m.query_id # NoId THEN m.query_id ELSE m.id]

ImageExplanation(data) == [image_url |-> data.image_url]

\* The session-change effect (deps: currentSession, cachedExplanations).
ImageResetEffect(cs, cache, h) ==
    LET m == LastAssistantMessage(cs)
        userMessage == UserMessageOf(cs, m)
        hit == /\ cs # NoSession
               /\ Len(cs.messages) > 0
               /\ m # NoMessage
               /\ userMessage # NoMessage
               /\ CacheHas(cache, ImageCacheKey(userMessage, m))
    IN [h EXCEPT !.explanation = IF hit THEN CacheGet(cache, ImageCacheKey(userMessage, m))
                                 ELSE NoExplanation,
                 !.error = NoError,
                 !.isLoading = FALSE]

\* The open effect's condition (deps: isOpen, currentSession, imageExplanation, isLoading).
ImageOpenEffectFires(snap) ==
    /\ snap.currentSession # NoSession
    /\ snap.hooks.explanation = NoExplanation
    /\ ~snap.hooks.isLoading

\* generateImageExplanation up to its await of fetch, called with the
\* closure (cs, cache) of a render, on the live hook state h.
ImageGenerate(cs, cache, h, instance) ==
    LET m == LastAssistantMessage(cs)
        userMessage == UserMessageOf(cs, m)
        key == ImageCacheKey(userMessage, m)
    IN IF cs = NoSession \/ Len(cs.messages) = 0
       THEN [hooks |-> [h EXCEPT !.error = "No messages to explain"],
             request |-> NoGenerateRequest,
             event |-> [kind |-> "refused", key |-> NoId]]
       ELSE IF m = NoMessage
       THEN [hooks |-> [h EXCEPT !.error = "No assistant messages to explain"],
             request |-> NoGenerateRequest,
             event |-> [kind |-> "refused", key |-> NoId]]
       ELSE IF userMessage = NoMessage
       THEN [hooks |-> [h EXCEPT !.error = "No user query found for image generation",
                                 !.isLoading = FALSE],
             request |-> NoGenerateRequest,
             event |-> [kind |-> "refused", key |-> NoId]]
       ELSE IF CacheHas(cache, key)
       THEN [hooks |-> [h EXCEPT !.explanation = CacheGet(cache, key),
                                 !.error = NoError,
                                 !.isLoading = FALSE],
             request |-> NoGenerateRequest,
             event |-> [kind |-> "cached", key |-> key]]
       ELSE [hooks |-> [h EXCEPT !.isLoading = TRUE, !.error = NoError],
             request |-> [stage |-> "fetch",
                          inst |-> instance,
                          sessionIdAtStart |-> cs.id,
                          cacheKey |-> key,
                          message |-> m,
                          text |-> userMessage.content],
             event |-> [kind |-> "requested", key |-> key]]

\* React renders ImageSidebar (mounting or unmounting it when the store's
\* isImageSidebarOpen changed) and runs the effects whose deps changed.
ImageRender ==
    /\ RenderPending
    /\ mounted = "image" \/ (mounted = "none" /\ isImageSidebarOpen)
    /\ IF ~isImageSidebarOpen
       THEN SidebarUnmount
       ELSE LET mounting == mounted = "none"
                h0 == IF mounting THEN InitialHooks ELSE Hooks
                snap == Snapshot(currentSession, h0)
                reset == \/ mounting
                         \/ sessionFresh
                         \/ h0.cachedExplanations # rendered.hooks.cachedExplanations
                open == \/ mounting
                        \/ sessionFresh
                        \/ h0.explanation # rendered.hooks.explanation
                        \/ h0.isLoading # rendered.hooks.isLoading
                h1 == IF reset
                      THEN ImageResetEffect(currentSession, h0.cachedExplanations, h0)
                      ELSE h0
                instance == IF mounting THEN inst + 1 ELSE inst
                g == IF open /\ ImageOpenEffectFires(snap)
                     THEN ImageGenerate(currentSession, h0.cachedExplanations, h1, instance)
                     ELSE [hooks |-> h1, request |-> NoGenerateRequest, event |-> NoEvent]
            IN /\ mounted' = "image"
               /\ inst' = instance
               /\ rendered' = snap
               /\ sessionFresh' = FALSE
               /\ SidebarAfterGenerate(g, TRUE)
    /\ UNCHANGED <<currentSession, sessions, isCreatingSession, creating, uuidCount, now,
                   quizVars, pageVars, callVars, chatVars, isVoiceSidebarOpen, isImageSidebarOpen>>

\* toggleImageSidebar (ExplanationToggle, or the sidebar's close button)
ToggleImageSidebar ==
    /\ UserMayAct
    /\ isImageSidebarOpen \/ inst < MaxMounts
    /\ isImageSidebarOpen' = ~isImageSidebarOpen
    /\ isVoiceSidebarOpen' = FALSE
    /\ NoteUserEvent(NoEvent)
    /\ UNCHANGED <<storeVars, quizVars, pageVars, callVars, chatVars, inst, mounted, hookVars, rendered, requests>>

\* ExplanationToggle.handleClose, on the button shown while isAnyOpen: the
\* two tests read the flags of the render, the toggles read the store.
HandleClose ==
    /\ UserMayAct
    /\ SidebarOpen
    /\ LET shown == SidebarFlags(isVoiceSidebarOpen, isImageSidebarOpen)
           afterVoice == IF shown.isVoiceSidebarOpen THEN AfterToggleVoice(shown) ELSE shown
           afterImage == IF shown.isImageSidebarOpen THEN AfterToggleImage(afterVoice) ELSE afterVoice
       IN /\ isVoiceSidebarOpen' = afterImage.isVoiceSidebarOpen
          /\ isImageSidebarOpen' = afterImage.isImageSidebarOpen
    /\ NoteUserEvent(ClosedEvent)
    /\ UNCHANGED <<storeVars, quizVars, pageVars, callVars, chatVars, inst, mounted, hookVars, rendered, requests>>

\* The "Try again" link under the error: setError(null); generateImageExplanation()
ImageTryAgain ==
    /\ mounted = "image"
    /\ UserMayAct
    /\ rendered.hooks.error # NoError
    /\ SidebarAfterGenerate(ImageGenerate(rendered.currentSession,
                                          rendered.hooks.cachedExplanations,
                                          [Hooks EXCEPT !.error = NoError],
                                          inst), FALSE)
    /\ UNCHANGED <<storeVars, quizVars, pageVars, callVars, chatVars, isVoiceSidebarOpen, isImageSidebarOpen,
                   inst, mounted, rendered>>

\* The "Clear image cache" button: clearCache
ClearCache ==
    /\ mounted = "image"
    /\ UserMayAct
    /\ cachedExplanations' = {}
    /\ explanation' = NoExplanation
    /\ error' = NoError
    /\ isLoading' = FALSE
    /\ NoteUserEvent([kind |-> "cleared", key |-> NoId])
    /\ UNCHANGED <<storeVars, quizVars, pageVars, callVars, chatVars, isVoiceSidebarOpen, isImageSidebarOpen,
                   inst, mounted, rendered, requests>>

\* fetch answered: a response that is not ok throws, an ok one is shown and cached.
ImageFetchReturns(i, data) ==
    /\ ~RenderPending
    /\ i \in 1..Len(requests)
    /\ requests[i].stage = "fetch"
    /\ LET r == requests[i]
       IN /\ requests' = RemoveAt(requests, i)
          /\ NoteEvent([kind |-> IF data.ok THEN "applied" ELSE "failed",
                           key |-> r.cacheKey,
                           alive |-> Alive(r),
                           sessionIdAtStart |-> r.sessionIdAtStart,
                           value |-> IF data.ok THEN ImageExplanation(data) ELSE NoExplanation])
          /\ IF Alive(r)
             THEN /\ isLoading' = FALSE
                  /\ explanation' = IF data.ok THEN ImageExplanation(data) ELSE explanation
                  /\ cachedExplanations' = IF data.ok
                                           THEN CachePut(cachedExplanations, r.cacheKey, ImageExplanation(data))
                                           ELSE cachedExplanations
                  /\ error' = IF data.ok THEN error ELSE "Failed to generate image explanation: "
             ELSE UNCHANGED hookVars
    /\ UNCHANGED <<storeVars, quizVars, pageVars, callVars, chatVars, isVoiceSidebarOpen, isImageSidebarOpen,
                   inst, mounted, rendered>>

\* Variant: a rejected fetch leaves an empty entry in the cache.
ImageFetchThrowsCaching(i) ==
    /\ ~RenderPending
    /\ i \in 1..Len(requests)
    /\ requests[i].stage = "fetch"
    /\ requests' = RemoveAt(requests, i)
    /\ NoteEvent([kind |-> "failed", key |-> requests[i].cacheKey,
                     alive |-> Alive(requests[i]),
                     sessionIdAtStart |-> requests[i].sessionIdAtStart,
                     value |-> NoExplanation])
    /\ IF Alive(requests[i])
       THEN /\ isLoading' = FALSE
            /\ error' = "Failed to fetch"
            /\ cachedExplanations' = CachePut(cachedExplanations, requests[i].cacheKey, NoExplanation)
            /\ UNCHANGED explanation
       ELSE UNCHANGED hookVars
    /\ UNCHANGED <<storeVars, quizVars, pageVars, callVars, chatVars, isVoiceSidebarOpen, isImageSidebarOpen,
                   inst, mounted, rendered>>

\* fetch rejected (the backend cannot be reached).
ImageFetchThrows(i) ==
    /\ ~RenderPending
    /\ i \in 1..Len(requests)
    /\ requests[i].stage = "fetch"
    /\ requests' = RemoveAt(requests, i)
    /\ NoteEvent([kind |-> "failed", key |-> requests[i].cacheKey,
                     alive |-> Alive(requests[i]),
                     sessionIdAtStart |-> requests[i].sessionIdAtStart,
                     value |-> NoExplanation])
    /\ IF Alive(requests[i])
       THEN /\ isLoading' = FALSE
            /\ error' = "Failed to fetch"
            /\ UNCHANGED <<explanation, cachedExplanations>>
       ELSE UNCHANGED hookVars
    /\ UNCHANGED <<storeVars, quizVars, pageVars, callVars, chatVars, isVoiceSidebarOpen, isImageSidebarOpen,
                   inst, mounted, rendered>>

(***************************************************************************)
(* Initial states and specifications                                       *)
(***************************************************************************)
InitQuiz ==
    /\ quizPc = "idle"
    /\ quizRequest = NoRequest
    /\ quizResponse = NoResponse
    /\ groqCalls = 0

\* QuizPage's useState initial values.
InitQuizPage ==
    /\ pageFile = "page"
    /\ currentStep = "setup"
    /\ quizData = NoQuiz
    /\ userAnswers = <<>>
    /\ currentQuestionIndex = 0
    /\ quizResults = NoResults
    /\ quizCount = 0
    /\ submits = <<>>
    /\ fetches = <<>>
    /\ generated = 0

InitChat ==
    /\ turns = <<>>
    /\ inputLoading = FALSE
    /\ inputTimers = <<>>
    /\ recordings = <<>>
    /\ calls = <<>>

InitSidebar ==
    /\ isVoiceSidebarOpen = FALSE
    /\ isImageSidebarOpen = FALSE
    /\ inst = 0
    /\ mounted = "none"
    /\ isLoading = FALSE
    /\ explanation = NoExplanation
    /\ error = NoError
    /\ cachedExplanations = {}
    /\ rendered = NotRendered
    /\ requests = <<>>
    /\ lastEvent = NoEvent
    /\ failedKeys = {}
    /\ autoRequests = 0

\* The store as create() leaves it.
InitStore ==
    /\ currentSession = NoSession
    /\ sessions = <<>>
    /\ sessionFresh = FALSE
    /\ isCreatingSession = FALSE
    /\ creating = NotCreating
    /\ uuidCount = 0
    /\ now = 0

Init == InitQuiz /\ InitQuizPage /\ InitStore /\ InitChat /\ InitSidebar

\* A session the store holds after a text turn about question s was
\* answered with the tiers of shape (or before any turn: answered = FALSE).
AnsweredSession(n, s, answered, shape, query_id) ==
    [id |-> BackendSessionId(n),
     title |-> Text("query", s, FALSE),
     messages |->
        IF answered
        THEN <<Message(QueryId(10 + n), "user", Text("query", s, FALSE), 0,
                       NoId, "NEGATIVE", NoText, NoText, NoText, 0),
               AssistantMessage(AskResponse(s, shape, query_id, "NEGATIVE"), Uuid(n), 0, n)>>
        ELSE <<>>]

SecondSessions ==
    {AnsweredSession(2, "friction", TRUE, <<TRUE, TRUE, TRUE>>, NoId),
     AnsweredSession(2, "friction", TRUE, <<TRUE, TRUE, FALSE>>, QueryId(2)),
     AnsweredSession(2, "friction", FALSE, <<FALSE, FALSE, FALSE>>, NoId)}

\* The store once two chats exist, the first with an answered turn.
InitAnswered ==
    /\ \E second \in SecondSessions :
          sessions = <<AnsweredSession(1, "Friction", TRUE, <<TRUE, TRUE, TRUE>>, QueryId(1)), second>>
    /\ currentSession = sessions[1]
    /\ sessionFresh = FALSE
    /\ isCreatingSession = FALSE
    /\ creating = NotCreating
    /\ uuidCount = 2
    /\ now = 0

NextQuiz ==
    \/ \E topic \in Topics, difficulty \in DifficultyInputs, questionCount \in QuestionCountInputs :
          QuizPost(topic, difficulty, questionCount, FALSE)
    \/ QuizGroqFails
    \/ \E quiz \in UpstreamQuizzes : QuizGroqReturns(quiz)
    \/ QuizNextRequest

SpecQuiz == Init /\ [][NextQuiz]_vars

\* The route serving the quiz page: every request is callGroqAPI's fetch.
NextQuizPage ==
    \/ \E topic \in Topics, difficulty \in DifficultyInputs, questionCount \in QuestionCountInputs :
          QuizPost(topic, difficulty, questionCount, TRUE)
    \/ QuizGroqFails
    \/ \E quiz \in UpstreamQuizzes : QuizGroqReturns(quiz)
    \/ QuizNextRequest

InitQuizSetup == InitQuiz /\ InitQuizPage /\ InitStore /\ InitChat /\ InitSidebar

SpecQuizPage == InitQuizSetup /\ [][NextQuizPage]_vars

\* The quizzes a page scores: a quiz as generateQuizWithGroq returns it, of
\* up to MaxScored questions, with an answer key over the first and the last
\* option.
ScoredQuiz(key) ==
    [questions |-> Arr([j \in 1..Len(key) |-> "question"]),
     options |-> Arr([j \in 1..Len(key) |-> Arr([o \in 1..OptionsPerQuestion |-> "option"])]),
     correct_answers |-> Arr(key),
     explanations |-> Arr([j \in 1..Len(key) |-> "explanation"])]

ScoredQuizzes == {ScoredQuiz(key) : key \in SeqsUpTo({Num(0), Num(MaxAnswerIndex)}, MaxScored)}

\* Either quiz page once a quiz has been generated and the quiz step opened.
InitQuizStep ==
    /\ pageFile \in {"page", "page_new"}
    /\ currentStep = "quiz"
    /\ quizData \in ScoredQuizzes
    /\ userAnswers = [i \in 1..Len(quizData.questions.items) |-> ""]
    /\ currentQuestionIndex = 0
    /\ quizResults = NoResults
    /\ quizCount = 0
    /\ submits = <<>>
    /\ fetches = <<>>
    /\ generated = 0

\* The options the learner clicks: the first and the last of a question.
ClickedOptions == {0, MaxAnswerIndex}

NextScore ==
    \/ \E answerIndex \in ClickedOptions : HandleAnswerSelect(answerIndex)
    \/ HandleNextQuestion
    \/ HandlePreviousQuestion
    \/ HandleSubmitQuiz
    \/ \E saved \in BOOLEAN : SubmitInsertReturns(saved)
    \/ HandleGenerateAnother

InitScore == InitQuiz /\ InitQuizStep /\ InitStore /\ InitChat /\ InitSidebar

SpecScore == InitScore /\ [][NextScore]_vars

\* The quizzes POST /api/generate-quiz answers the page with: as many
\* questions as were asked for, each with the first option as its answer.
GeneratedQuizzes == {ScoredQuiz(key) : key \in SeqsUpTo({Num(0)}, MaxQuestions)}

\* The Generate Quiz button of the setup step: generateQuiz up to the await
\* of callGroqAPI. setLoading(true) and setLoading(false) run in the same
\* synchronous stretch, so the button is enabled again when it returns.
GenerateQuiz ==
    /\ currentStep = "setup"
    /\ Len(fetches) < MaxFetches
    /\ fetches' = Append(fetches, "pending")
    /\ UNCHANGED <<pageFile, currentStep, quizData, userAnswers, currentQuestionIndex,
                   quizResults, quizCount, submits, generated,
                   quizVars, storeVars, chatVars, sidebarVars, callVars>>

\* callGroqAPI answered ok: generateQuiz goes on after its await.
CallGroqReturns(k, generatedQuiz) ==
    /\ k \in 1..Len(fetches)
    /\ fetches[k] = "pending"
    /\ fetches' = [fetches EXCEPT ![k] = "resolved"]
    /\ quizData' = generatedQuiz
    /\ userAnswers' = [i \in 1..Len(generatedQuiz.questions.items) |-> ""]
    /\ currentQuestionIndex' = 0
    /\ currentStep' = "quiz"
    /\ generated' = k
    /\ UNCHANGED <<pageFile, quizResults, quizCount, submits,
                   quizVars, storeVars, chatVars, sidebarVars, callVars>>

\* callGroqAPI threw (the fetch failed or the response was not ok): alert.
CallGroqFails(k) ==
    /\ k \in 1..Len(fetches)
    /\ fetches[k] = "pending"
    /\ fetches' = [fetches EXCEPT ![k] = "rejected"]
    /\ UNCHANGED <<pageFile, currentStep, quizData, userAnswers, currentQuestionIndex,
                   quizResults, quizCount, submits, generated,
                   quizVars, storeVars, chatVars, sidebarVars, callVars>>

\* The quiz page from its setup step on, with the clicks and the pending
\* generate and insert requests in any order.
NextQuizSteps ==
    \/ GenerateQuiz
    \/ \E k \in 1..MaxFetches, generatedQuiz \in GeneratedQuizzes : CallGroqReturns(k, generatedQuiz)
    \/ \E k \in 1..MaxFetches : CallGroqFails(k)
    \/ \E answerIndex \in ClickedOptions : HandleAnswerSelect(answerIndex)
    \/ HandleNextQuestion
    \/ HandlePreviousQuestion
    \/ SubmitQuiz(MaxResubmits)
    \/ \E saved \in BOOLEAN : SubmitInsertReturns(saved)
    \/ HandleGenerateAnother

SpecQuizSteps == InitQuizSetup /\ [][NextQuizSteps]_vars

NextChat ==
    \/ Tick
    \/ \E typed \in TypedMessages : HandleSubmit(typed)
    \/ \E i \in 1..MaxTurns : TimerFires(i)
    \/ \E t \in 1..MaxTurns : \E query_id \in SentimentQueryIds(t), sentiment_label \in SentimentLabels :
          SentimentReturns(t, query_id, sentiment_label)
    \/ \E t \in 1..MaxTurns : SentimentFails(t)
    \/ \E t \in 1..MaxTurns, ok \in BOOLEAN : TitleReturns(t, ok)
    \/ \E t \in 1..Len(turns) : \E askResponse \in AskResponses(t, turns[t].message.content.s) :
          AskReturns(t, askResponse)
    \/ \E t \in 1..MaxTurns : AskFails(t)

\* The store once ChatPage has created the first chat and the backend has
\* answered with its session id.
InitOneChat ==
    /\ sessions = <<[id |-> BackendSessionId(1), title |-> NewChatTitle, messages |-> <<>>]>>
    /\ currentSession = sessions[1]
    /\ sessionFresh = FALSE
    /\ isCreatingSession = FALSE
    /\ creating = NotCreating
    /\ uuidCount = 1
    /\ now = 0

InitChatPage == InitQuiz /\ InitQuizPage /\ InitOneChat /\ InitChat /\ InitSidebar

SpecChat == InitChatPage /\ [][NextChat]_vars

\* The chat page used through the microphone: audio messages, and the text
\* turns addMessage starts for those that come back without a query_id.
NextAudio ==
    \/ HandleStopRecording
    \/ \E k \in 1..MaxRecordings : \E audioResponse \in AudioResponses(k) :
          AudioMessageReturns(k, audioResponse)
    \/ \E k \in 1..MaxRecordings : AudioMessageFails(k)
    \/ \E t \in 1..MaxTurns : \E query_id \in SentimentQueryIds(t), sentiment_label \in SentimentLabels :
          SentimentReturns(t, query_id, sentiment_label)
    \/ \E t \in 1..MaxTurns : SentimentFails(t)
    \/ \E t \in 1..MaxTurns, ok \in BOOLEAN : TitleReturns(t, ok)
    \/ \E t \in 1..Len(turns) : \E askResponse \in AskResponses(t, turns[t].message.content.s) :
          AskReturns(t, askResponse)
    \/ \E t \in 1..MaxTurns : AskFails(t)

SpecAudio == InitChatPage /\ [][NextAudio]_vars

\* The store once two chats exist, none with a message yet.
InitTwoChats ==
    /\ sessions = <<[id |-> BackendSessionId(1), title |-> NewChatTitle, messages |-> <<>>],
                    [id |-> BackendSessionId(2), title |-> Text("query", "friction", FALSE),
                     messages |-> <<>>]>>
    /\ currentSession = sessions[1]
    /\ sessionFresh = FALSE
    /\ isCreatingSession = FALSE
    /\ creating = NotCreating
    /\ uuidCount = 0
    /\ now = 0

\* The chat page with the user moving between two chats while turns run.
NextSwitch ==
    \/ NextChat
    \/ \E i \in 1..Len(sessions) : SelectSession(i)

InitSwitch == InitQuiz /\ InitQuizPage /\ InitTwoChats /\ InitChat /\ InitSidebar

SpecSwitch == InitSwitch /\ [][NextSwitch]_vars

\* The chat page's session list: ChatPage and ChatSidebar calling the
\* store's session operations, and a message submitted through ChatInput.
NextSessions ==
    \/ CreateNewSession
    \/ \E c \in 1..MaxCalls : \E session_id \in {NoId, CreatedSessionId(c)} :
          CreateSessionReturns(c, session_id)
    \/ \E c \in 1..MaxCalls : CreateSessionFails(c)
    \/ LoadChatHistory
    \/ \E c \in 1..MaxCalls : \E chats \in ChatHistories : LoadChatHistoryReturns(c, chats)
    \/ \E c \in 1..MaxCalls : LoadChatHistoryFails(c)
    \/ \E i \in 1..Len(sessions) : DeleteSession(i)
    \/ \E c \in 1..MaxCalls : DeleteSessionReturns(c)
    \/ \E c \in 1..MaxCalls : DeleteSessionFails(c)
    \/ \E i \in 1..Len(sessions) : UpdateSessionTitle(i, Text("query", "Friction", TRUE))
    \/ \E c \in 1..MaxCalls : UpdateSessionTitleReturns(c)
    \/ \E c \in 1..MaxCalls : UpdateSessionTitleFails(c)
    \/ \E i \in 1..Len(sessions) : LoadChatMessages(i)
    \/ \E c \in 1..MaxCalls : LoadChatMessagesReturns(c)
    \/ \E c \in 1..MaxCalls : LoadChatMessagesFails(c)
    \/ \E typed \in TypedMessages : HandleSubmit(typed)

InitSessions == InitQuiz /\ InitQuizPage /\ InitStore /\ InitChat /\ InitSidebar

SpecSessions == InitSessions /\ [][NextSessions]_vars

NextVoice ==
    \/ VoiceRender
    \/ ToggleVoiceSidebar
    \/ VoiceClickGenerate
    \/ VoiceRetryGeneration
    \/ \E i \in 1..(MaxRequests + 1), response \in VoiceResponses : ExistingAudioReturns(i, response)
    \/ \E i \in 1..(MaxRequests + 1) : ExistingAudioThrows(i)
    \/ \E i \in 1..(MaxRequests + 1), response \in VoiceResponses : GenerateVoiceReturns(i, response)
    \/ \E i \in 1..(MaxRequests + 1), message \in ThrownErrors : GenerateVoiceThrows(i, message)
    \/ \E i \in 1..Len(sessions) : SelectSession(i)
    \/ \E i \in 1..Len(sessions) : SaveTitle(i, sessions[i].title)

InitVoice == InitQuiz /\ InitQuizPage /\ InitAnswered /\ InitChat /\ InitSidebar

SpecVoice == InitVoice /\ [][NextVoice]_vars

NextImage ==
    \/ ImageRender
    \/ ToggleImageSidebar
    \/ ImageTryAgain
    \/ ClearCache
    \/ \E i \in 1..(MaxRequests + 1), data \in ImageResponses : ImageFetchReturns(i, data)
    \/ \E i \in 1..(MaxRequests + 1) : ImageFetchThrows(i)
    \/ \E i \in 1..Len(sessions) : SelectSession(i)
    \/ \E i \in 1..Len(sessions) : SaveTitle(i, sessions[i].title)

InitImage == InitQuiz /\ InitQuizPage /\ InitAnswered /\ InitChat /\ InitSidebar

SpecImage == InitImage /\ [][NextImage]_vars

\* Both sidebars on one page: ExplanationToggle switches between them.
NextSidebars == NextVoice \/ NextImage

InitSidebars == InitQuiz /\ InitQuizPage /\ InitAnswered /\ InitChat /\ InitSidebar

SpecSidebars == InitSidebars /\ [][NextSidebars]_vars

\* ExplanationToggle: its two toggles and its close button, the renders of
\* the sidebars they open and the answers to the requests those start.
NextToggle ==
    \/ ToggleVoiceSidebar
    \/ ToggleImageSidebar
    \/ HandleClose
    \/ VoiceRender
    \/ ImageRender
    \/ \E i \in 1..(MaxRequests + 1), response \in VoiceResponses : ExistingAudioReturns(i, response)
    \/ \E i \in 1..(MaxRequests + 1), response \in VoiceResponses : GenerateVoiceReturns(i, response)
    \/ \E i \in 1..(MaxRequests + 1), data \in ImageResponses : ImageFetchReturns(i, data)

SpecToggle == InitSidebars /\ [][NextToggle]_vars

(***************************************************************************)
(* Properties                                                              *)
(***************************************************************************)

\* C2: every quiz POST /api/generate-quiz answers with (status 200) has, for
\* every question, a numeric correct answer index between 0 and 3, whatever
\* index the upstream model sent.
QuizAnswersInRange ==
    quizResponse.status = 200 =>
        \A i \in 1..Len(quizResponse.quiz.correct_answers.items) :
            /\ quizResponse.quiz.correct_answers.items[i].isNumber
            /\ quizResponse.quiz.correct_answers.items[i].n >= 0
            /\ quizResponse.quiz.correct_answers.items[i].n <= MaxAnswerIndex

\* A quiz was returned whose upstream answers held an index above 4 and a
\* negative one.
QuizOutOfRangeReturned ==
    /\ quizResponse.status = 200
    /\ \E i \in 1..Len(quizResponse.raw) : quizResponse.raw[i].n > OptionsPerQuestion
    /\ \E i \in 1..Len(quizResponse.raw) : quizResponse.raw[i].n < 0
    /\ Len(quizResponse.quiz.correct_answers.items) = Len(quizResponse.raw)

\* Two calls of one sidebar instance are in flight for one cache key at stage.
TwoInFlight(stage) ==
    \E i, j \in 1..Len(requests) :
        /\ i # j
        /\ requests[i].stage = stage
        /\ requests[j].stage = stage
        /\ requests[i].inst = requests[j].inst
        /\ requests[i].cacheKey = requests[j].cacheKey

\* C1: for one query id, a VoiceSidebar never has two apiService.generateVoice
\* calls in flight, whatever effects, session-object changes and clicks occur
\* while the first is pending.
VoiceSingleFlight == ~TwoInFlight("generate")

\* C3: an entry of a mounted sidebar's cachedExplanations stays in the cache
\* with the same value in every later state.
CacheEntriesStable ==
    [][(mounted' = mounted /\ inst' = inst) =>
          \A e \in cachedExplanations : e \in cachedExplanations']_vars

\* C4: for one cache key, an ImageSidebar never has two requests to
\* /image/explain-topic in flight.
ImageSingleFlight == ~TwoInFlight("fetch")

\* The step just taken completed a generation of the mounted instance.
Completed(e) == e.kind \in {"failed", "applied", "discarded"} /\ e.alive

NoStaleResult ==
    (/\ Completed(lastEvent)
     /\ lastEvent.kind # "failed"
     /\ currentSession.id # lastEvent.sessionIdAtStart) =>
        explanation # lastEvent.value

\* C7: every call of the voice API carries the detailed_response of the
\* message it narrates, never another tier, and a message without a
\* detailed_response gets the error and no call.
OnlyDetailedIsVoiced ==
    /\ \A i \in 1..Len(requests) :
          requests[i].stage \in {"existing", "generate"} =>
             /\ requests[i].text = requests[i].message.detailed_response
             /\ requests[i].text.kind = "detailed"
             /\ requests[i].text # requests[i].message.main_response
             /\ requests[i].text # requests[i].message.simplified_response
    /\ (/\ mounted = "voice"
        /\ lastEvent.kind \in {"refused", "cached", "requested"}
        /\ rendered.currentSession # NoSession
        /\ LastAssistantMessage(rendered.currentSession) # NoMessage
        /\ LastAssistantMessage(rendered.currentSession).detailed_response = NoText) =>
          /\ lastEvent.kind = "refused"
          /\ error = DetailedOnlyError
          /\ \A i \in 1..Len(requests) :
                requests[i].message # LastAssistantMessage(rendered.currentSession)

\* The voice sidebar refused to narrate a message that has a main and a
\* simplified response only.
VoiceRefusedOtherTiers ==
    /\ mounted = "voice"
    /\ lastEvent.kind = "refused"
    /\ LastAssistantMessage(currentSession).detailed_response = NoText
    /\ LastAssistantMessage(currentSession).simplified_response # NoText
    /\ error = DetailedOnlyError
    /\ requests = <<>>

\* The sessions that hold an assistant message answering turn t.
RepliesTo(t) ==
    {k \in 1..Len(sessions) :
        \E i \in 1..Len(sessions[k].messages) :
            /\ sessions[k].messages[i].type = "assistant"
            /\ sessions[k].messages[i].turn = t}

\* C8: a turn goes sentiment -> (title) -> ask -> done. askQuestion is
\* issued only once sendTextMessage has returned a query_id, with the label
\* that call returned or NEUTRAL, and an assistant message of the turn
\* exists only once askQuestion has returned.
TurnStagesInOrder ==
    /\ [](\A t \in 1..Len(turns) :
            /\ (turns[t].pc \in {"title", "ask"} \/ turns[t].askReturned) =>
                   turns[t].query_id # NoId
            /\ (turns[t].pc = "ask" \/ turns[t].askReturned) =>
                   turns[t].askLabel = IF turns[t].sentiment_label = NoValue
                                       THEN "NEUTRAL"
                                       ELSE turns[t].sentiment_label
            /\ RepliesTo(t) # {} => turns[t].askReturned /\ turns[t].pc = "done")
    /\ [][\A t \in 1..Len(turns) :
            turns'[t].pc # turns[t].pc =>
               \/ turns[t].pc = "sentiment" /\ turns'[t].pc \in {"title", "ask"}
                                            /\ turns'[t].query_id # NoId
               \/ turns[t].pc = "sentiment" /\ turns'[t].pc = "done"
                                            /\ ~turns'[t].askReturned
               \/ turns[t].pc = "title" /\ turns'[t].pc = "ask"
               \/ turns[t].pc = "ask" /\ turns'[t].pc = "done"]_vars

\* A turn whose sentiment call returned no label was answered after
\* askQuestion got NEUTRAL.
TurnAnsweredWithNeutral ==
    \E t \in 1..Len(turns) :
        /\ turns[t].pc = "done"
        /\ turns[t].sentiment_label = NoValue
        /\ turns[t].askLabel = "NEUTRAL"
        /\ turns[t].replied
        /\ RepliesTo(t) # {}

\* C9: a turn that has run to its end has an assistant message in the
\* session; none ends without a response.
EveryTurnAnswered ==
    \A t \in 1..Len(turns) : turns[t].pc = "done" => RepliesTo(t) # {}

\* C10: in a session's messages the assistant responses stand in the order
\* in which their user messages were submitted.
RepliesInArrivalOrder ==
    \A k \in 1..Len(sessions) :
        \A i, j \in 1..Len(sessions[k].messages) :
            (/\ i < j
             /\ sessions[k].messages[i].type = "assistant"
             /\ sessions[k].messages[j].type = "assistant") =>
                sessions[k].messages[i].turn <= sessions[k].messages[j].turn

\* C11: a quiz returned for a request with questionCount = n has exactly n
\* questions, n option lists, n correct answers and n explanations, and every
\* option list is an array of exactly 4 options.
QuizShapeAsRequested ==
    quizResponse.status = 200 =>
        /\ quizResponse.quiz.questions.isArray
        /\ quizResponse.quiz.options.isArray
        /\ quizResponse.quiz.correct_answers.isArray
        /\ quizResponse.quiz.explanations.isArray
        /\ Len(quizResponse.quiz.questions.items) = quizRequest.questionCount
        /\ Len(quizResponse.quiz.options.items) = quizRequest.questionCount
        /\ Len(quizResponse.quiz.correct_answers.items) = quizRequest.questionCount
        /\ Len(quizResponse.quiz.explanations.items) = quizRequest.questionCount
        /\ \A i \in 1..Len(quizResponse.quiz.options.items) :
               /\ quizResponse.quiz.options.items[i].isArray
               /\ Len(quizResponse.quiz.options.items[i].items) = OptionsPerQuestion

\* A quiz of more than one question was returned.
QuizOfSeveralReturned ==
    /\ quizResponse.status = 200
    /\ quizRequest.questionCount > 1
    /\ Len(quizResponse.quiz.questions.items) = quizRequest.questionCount

\* C12: when an options entry of the upstream response is not an array of
\* exactly 4 items, POST answers with an error and no quiz (nothing repaired),
\* and the quiz page that asked is still on the setup step without quizData.
WrongOptionsFailTheRequest ==
    (/\ quizResponse.sent.isArray
     /\ \E i \in 1..Len(quizResponse.sent.items) :
           \/ ~quizResponse.sent.items[i].isArray
           \/ Len(quizResponse.sent.items[i].items) # 4)
    => /\ quizResponse.status = 500
       /\ quizResponse.quiz = NoQuiz
       /\ quizRequest.fromPage => (currentStep = "setup" /\ quizData = NoQuiz)

\* The page asked for a quiz of two questions; the upstream model sent three
\* options for the second one, and the request failed.
ThreeOptionsRejected ==
    /\ quizRequest.fromPage
    /\ quizRequest.questionCount = 2
    /\ quizResponse.sent.isArray
    /\ Len(quizResponse.sent.items) = 2
    /\ quizResponse.sent.items[1].isArray
    /\ Len(quizResponse.sent.items[1].items) = 4
    /\ quizResponse.sent.items[2].isArray
    /\ Len(quizResponse.sent.items[2].items) = 3
    /\ quizResponse.status = 500
    /\ currentStep = "setup"

\* C13: a request whose topic is empty or whitespace, whose difficulty is not
\* easy / medium / hard, or whose questionCount is missing or outside 1..15 is
\* answered with status 400, and generateQuizWithGroq is not called for it.
InvalidInputAnswered400 ==
    (/\ quizPc = "responded"
     /\ \/ quizRequest.topic \in {Str(""), Str("  ")}
        \/ quizRequest.difficulty \notin {"easy", "medium", "hard"}
        \/ quizRequest.questionCount \notin 1..15)
    => (quizResponse.status = 400 /\ groqCalls = 0)

\* The positions where the submitted option index is the correct one.
MatchingPositions(answers, key) ==
    {i \in 1..Len(answers) : \E k \in 0..3 : answers[i] = AnswerStrings[k + 1] /\ key[i] = Num(k)}

\* The results handleSubmitQuiz has computed: shown, or awaiting the insert.
ComputedResults == {submits[i].results : i \in 1..Len(submits)} \cup ({quizResults} \ {NoResults})

\* C14 as stated: in both pages the score is exactly
\* correctCount / number of questions x 100.
ScoreIsExactRatio ==
    \A r \in ComputedResults :
        r.score.num * r.totalQuestions =
            Cardinality(MatchingPositions(r.userAnswers, r.correctAnswerIndices)) * 100 * r.score.den

\* C14, amended: correctCount is the number of matching positions (for
\* all-zero answers, the number of questions whose correct index is 0);
\* page.tsx's score is exactly correctCount / n x 100, page_new.tsx's score is
\* that value rounded to the nearest integer.
ScoreIsRatioOrRounded ==
    \A r \in ComputedResults :
        LET count == Cardinality(MatchingPositions(r.userAnswers, r.correctAnswerIndices))
            n == r.totalQuestions
        IN /\ r.correctAnswers = count
           /\ n = Len(r.correctAnswerIndices)
           /\ (\A i \in 1..n : r.userAnswers[i] = "0") =>
                 count = Cardinality({i \in 1..n : r.correctAnswerIndices[i] = Num(0)})
           /\ pageFile = "page" => r.score.num * n = count * 100 * r.score.den
           /\ pageFile = "page_new" =>
                 /\ r.score.den = 1
                 /\ 2 * (r.score.num * n - count * 100) <= n
                 /\ 2 * (count * 100 - r.score.num * n) < n

\* page_new.tsx shows 33 for one correct answer out of three: all answers are
\* option 0 and one question has correct index 0.
OneOfThreeScored ==
    /\ pageFile = "page_new"
    /\ currentStep = "results"
    /\ quizResults.totalQuestions = 3
    /\ quizResults.userAnswers = <<"0", "0", "0">>
    /\ quizResults.correctAnswers = 1
    /\ quizResults.score = Rational(33, 1)

\* The explanations a voice sidebar holds: the one shown and the cached ones.
VoiceExplanationsHeld ==
    IF mounted = "voice"
    THEN ({explanation} \ {NoExplanation}) \cup {e.value : e \in cachedExplanations}
    ELSE {}

SwitchedResultCached ==
    (lastEvent.kind \in {"applied", "discarded"} /\ lastEvent.alive)
        => CacheHas(cachedExplanations, lastEvent.key)


(***************************************************************************)
(* ChatMessage  (src/unnamed/part_003)                                     *)
(***************************************************************************)
\* a || b on texts: a missing or empty text is falsy.
OrText(a, b) == IF a # NoText THEN a ELSE b

\* const hasDetailedResponse = message.detailed_response && ... !== ...
HasDetailedResponse(message) ==
    /\ message.detailed_response # NoText
    /\ message.detailed_response # message.main_response
    /\ message.detailed_response # message.simplified_response

\* const contentToRender = ...; showDetailed is false until the toggle is clicked.
ContentToRender(message, showDetailed) ==
    IF message.type = "assistant" /\ HasDetailedResponse(message)
    THEN OrText(IF showDetailed
                THEN message.detailed_response
                ELSE OrText(message.main_response, message.simplified_response),
                NoText)
    ELSE OrText(OrText(OrText(message.main_response, message.simplified_response),
                       message.content),
                NoText)

\* The assistant messages of the current session that answer a text turn
\* and carry both a main and a simplified response.
TwoTierReplies ==
    {m \in {currentSession.messages[i] : i \in 1..Len(currentSession.messages)} :
        /\ m.type = "assistant"
        /\ m.turn \in 1..Len(turns)
        /\ m.main_response # NoText
        /\ m.simplified_response # NoText}

\* C17: for an assistant message with both a main and a simplified
\* response, the tier shown by default (the message's content in the store
\* and the text ChatMessage renders before any toggle) is the simplified
\* tier when the learner's sentiment is negative and the main tier when it
\* is not.  The learner's sentiment is the label the turn sent to /ask/; a
\* NEGATIVE label stands for negative sentiment of above-threshold intensity.
DefaultTierFollowsSentiment ==
    \A m \in TwoTierReplies :
        LET tier == IF turns[m.turn].askLabel = "NEGATIVE"
                    THEN m.simplified_response
                    ELSE m.main_response
        IN /\ m.content = tier
           /\ ContentToRender(m, FALSE) = tier


\* C18: every assistant message in a session's messages list, whether it
\* came from a text turn or from an audio turn, has all three tiers
\* main_response, simplified_response and detailed_response; no assistant
\* message with a missing tier is in the list.
AllTiersPresent ==
    \A k \in 1..Len(sessions) : \A i \in 1..Len(sessions[k].messages) :
        LET m == sessions[k].messages[i]
        IN m.type = "assistant" =>
              /\ m.main_response # NoText
              /\ m.simplified_response # NoText
              /\ m.detailed_response # NoText


\* C19: generating a voice or visual artifact, whether it succeeds, fails or
\* returns nothing, leaves the chat store's sessions and currentSession
\* (and with them every field of every message) unchanged; a failure only
\* sets the error state of the sidebar that started the call, and nothing at
\* all once that sidebar is closed.  Every step of generateVoiceExplanation
\* and generateImageExplanation leaves its event in lastEvent.
GenerationLeavesStoreAlone ==
    [][lastEvent'.kind # "none" =>
          /\ currentSession' = currentSession
          /\ sessions' = sessions
          /\ lastEvent'.kind = "failed" =>
                /\ explanation' = explanation
                /\ cachedExplanations' = cachedExplanations
                /\ IF lastEvent'.alive
                   THEN error' # NoError /\ ~isLoading'
                   ELSE error' = error /\ isLoading' = isLoading]_vars

\* A generation failed in an open sidebar that shows a session with an
\* answered question: the sidebar holds the error, no explanation.
GenerationFailedLocally ==
    /\ lastEvent.kind = "failed"
    /\ lastEvent.alive
    /\ error # NoError
    /\ explanation = NoExplanation
    /\ LastAssistantMessage(currentSession) # NoMessage


\* C20: with the image sidebar open and the request failing every time,
\* ImageSidebar issues a bounded number of automatic requests, the first
\* attempt plus at most one retry, and then rests in the error state: between
\* two actions of the user (a toggle, 'Try again', the cache button, another
\* session) the open effect starts at most two requests.
AutomaticRequestsBounded ==
    mounted = "image" => autoRequests <= 2


\* C21: generateQuizWithGroq maps each raw numeric answer index r of a quiz
\* it returns to r - 1 when 1 <= r <= 4, to 3 when r > 4, to 0 when r < 0 and
\* to r when r = 0; a non-numeric index makes the whole request fail, so a
\* returned quiz had none.
IndexCorrectionTable ==
    quizResponse.status = 200 =>
        /\ Len(quizResponse.raw) = Len(quizResponse.quiz.correct_answers.items)
        /\ \A i \in 1..Len(quizResponse.raw) :
              LET r == quizResponse.raw[i]
                  c == quizResponse.quiz.correct_answers.items[i]
              IN /\ r.isNumber
                 /\ c.isNumber
                 /\ (r.n >= 1 /\ r.n <= 4) => c.n = r.n - 1
                 /\ r.n > 4 => c.n = 3
                 /\ r.n < 0 => c.n = 0
                 /\ r.n = 0 => c.n = 0

\* A quiz was returned whose upstream answers were a 0 and a 4.
QuizOfZeroAndFourReturned ==
    /\ quizResponse.status = 200
    /\ \E i \in 1..Len(quizResponse.raw) : quizResponse.raw[i] = Num(0)
    /\ \E i \in 1..Len(quizResponse.raw) : quizResponse.raw[i] = Num(4)


\* The upstream model obeyed the prompt: the quiz that was returned came
\* from answers that were all valid 0-based indices.
UpstreamKeyValid ==
    /\ quizResponse.status = 200
    /\ \A i \in 1..Len(quizResponse.raw) :
          /\ quizResponse.raw[i].isNumber
          /\ quizResponse.raw[i].n \in 0..MaxAnswerIndex

AssistantMessagesOf(t) ==
    UNION {{<<k, i>> : i \in {j \in 1..Len(sessions[k].messages) :
                                  /\ sessions[k].messages[j].type = "assistant"
                                  /\ sessions[k].messages[j].turn = t}} :
           k \in {n \in 1..Len(sessions) : sessions[n].id = turns[t].sessionId}}

\* C23: when sendTextMessage and askQuestion both succeed for a user
\* message, askQuestion returns a non-empty main_response and the current
\* session has not changed, exactly one assistant message carrying that
\* response is in the session, whatever query_id values the backend
\* returned and whatever the response text is.
ReplyAppendedOnce ==
    \A t \in 1..Len(turns) :
        (/\ turns[t].askReturned
         /\ turns[t].askMain # NoText
         /\ currentSession.id = turns[t].sessionId) =>
            /\ Cardinality(AssistantMessagesOf(t)) = 1
            /\ \A at \in AssistantMessagesOf(t) :
                  sessions[at[1]].messages[at[2]].main_response = CleanMarkdown(turns[t].askMain)


\* C24: the assistant message produced for a user message submitted in
\* session A is appended only to session A's message list: whatever session
\* is current when the response arrives, every assistant message that
\* answers a turn stands in the session the turn was submitted in.
ReplyStaysInItsSession ==
    \A k \in 1..Len(sessions) : \A i \in 1..Len(sessions[k].messages) :
        LET m == sessions[k].messages[i]
        IN (m.type = "assistant" /\ m.turn \in 1..Len(turns)) =>
               sessions[k].id = turns[m.turn].sessionId


\* C25: the ids in sessions are pairwise distinct and, whenever
\* currentSession is non-null, exactly one entry of sessions has its id.
SessionIdsConsistent ==
    /\ \A i, j \in 1..Len(sessions) : sessions[i].id = sessions[j].id => i = j
    /\ currentSession # NoSession =>
          Cardinality({i \in 1..Len(sessions) : sessions[i].id = currentSession.id}) = 1


\* C27: at most one createSession request is in flight: isCreatingSession is
\* true exactly while one is pending, a createNewSession call made while it
\* is true issues no request and leaves sessions and currentSession as they
\* were, and the flag is false again once the request has completed.
SingleCreateInFlight ==
    [][/\ Cardinality(Pending("create")') <= 1
       /\ isCreatingSession' <=> Pending("create")' # {}
       /\ (isCreatingSession /\ Len(calls') > Len(calls) /\ calls'[Len(calls')].op = "create")
             => /\ calls'[Len(calls')].status = "skipped"
                /\ UNCHANGED <<sessions, currentSession, uuidCount>>
       /\ (\E c \in Pending("create") : calls'[c].status \in {"resolved", "rejected"})
             => ~isCreatingSession']_vars

CreateSkippedThenFailed ==
    /\ \E c, d \in 1..Len(calls) :
          /\ c < d
          /\ calls[c].op = "create" /\ calls[c].status = "rejected"
          /\ calls[d].op = "create" /\ calls[d].status = "skipped"
    /\ ~isCreatingSession


\* C30: a deleteSession or updateSessionTitle call whose backend call fails
\* is rejected (the error is rethrown) and leaves sessions and currentSession
\* as they were; a deleteSession that succeeds removes exactly the session
\* of that id and sets currentSession to null only if it was the deleted one.
FailedCallLeavesStore ==
    [][/\ \A c \in Pending("delete") \cup Pending("title") :
             calls'[c].status # "pending"
                => \/ calls'[c].status = "resolved"
                   \/ calls'[c].status = "rejected" /\ UNCHANGED <<sessions, currentSession>>
       /\ \A c \in Pending("delete") :
             calls'[c].status = "resolved"
                => /\ sessions' = SelectSeq(sessions, LAMBDA session : session.id # calls[c].id)
                   /\ currentSession' = IF currentSession # NoSession /\ currentSession.id = calls[c].id
                                        THEN NoSession
                                        ELSE currentSession]_vars

DeleteFailedThenSucceeded ==
    \E c, d \in 1..Len(calls) :
       /\ c < d
       /\ calls[c].op = "delete" /\ calls[c].status = "rejected"
       /\ calls[d].op = "delete" /\ calls[d].status = "resolved"
       /\ calls[c].id = calls[d].id
       /\ \E e \in 1..Len(calls) : calls[e].op = "create" /\ calls[e].id = calls[d].id
       /\ currentSession = NoSession
       /\ \A i \in 1..Len(sessions) : sessions[i].id # calls[d].id


\* C26: the voice and the image sidebar are never both open, and
\* ExplanationToggle.handleClose leaves both closed.
SidebarsExclusive ==
    /\ ~(isVoiceSidebarOpen /\ isImageSidebarOpen)
    /\ lastEvent = ClosedEvent => ~isVoiceSidebarOpen /\ ~isImageSidebarOpen

ImageSidebarClosed ==
    /\ lastEvent = ClosedEvent
    /\ mounted = "image"
    /\ ~SidebarOpen


\* C28: on the quiz step quizData is set, userAnswers has one entry per
\* question and currentQuestionIndex is the index of a question; on the
\* results step quizResults is set; and the results step is entered only from
\* the quiz step, with every question answered.
QuizStepMachine ==
    [][/\ currentStep' = "quiz" =>
             /\ quizData' # NoQuiz
             /\ Len(userAnswers') = Len(quizData'.questions.items)
             /\ currentQuestionIndex' \in 0..(Len(quizData'.questions.items) - 1)
       /\ currentStep' = "results" => quizResults' # NoResults
       /\ (currentStep # "results" /\ currentStep' = "results") =>
             /\ currentStep = "quiz"
             /\ \A i \in 1..Len(userAnswers) : userAnswers[i] # ""]_vars

\* C29: no two inserts into quizzes are made for one generated quiz, and on
\* the results step the quiz, the answers and the results stay as they are
\* until Generate Another Quiz discards them.
QuizScoredOnce ==
    [][/\ \A i, j \in 1..Len(submits') : submits'[i].generated = submits'[j].generated => i = j
       /\ (currentStep = "results" /\ currentStep' # "setup") =>
             UNCHANGED <<currentStep, quizData, userAnswers, quizResults>>]_vars

====
